---------------------------- MODULE Spec2Model ----------------------------
(***************************************************************************)
(* Verification model of hexrd/WPPF.py: whole powder pattern fitting by    *)
(* the LeBail and Rietveld methods.                                        *)
(*                                                                         *)
(* Numbers.  The program works on float64.  The model keeps every quantity *)
(* exact by using integers:                                                *)
(*   - lengths are integers in units of 0.05 (the half-width of the bounds *)
(*     initialize_parameters puts on a lattice length), angles are degrees *)
(*     drawn from 60, 90, 120 so that 2*cos is an integer;                 *)
(*   - the direct metric tensor is stored doubled (field dmt = 2 * dmt of  *)
(*     the program), which makes it an integer matrix; the reciprocal      *)
(*     metric tensor is its inverse and is represented by the adjugate and *)
(*     the determinant, so squared lengths are exact fractions;            *)
(*   - a two-theta position is represented by the squared reciprocal       *)
(*     length it is the (strictly increasing) image of.                    *)
(***************************************************************************)
EXTENDS Integers, Sequences, FiniteSets, TLC

VARIABLES
    \* ---- the refinement models (LeBail, LeBail_FPA, LeBail_Asym, Rietveld, Rietveld_Asym)
    variant,        \* which class the model object is an instance of
    params,         \* self.params: the ParameterSet, in insertion order
    attrs,          \* the model's settable attributes (_U, _zero_error, _scale, ...)
    FP,             \* LeBail_FPA: the emission parameters held by the FP_profile engine
    mat,            \* self.phases[p]: the Material of the phase
    tth,            \* self.tth[p][k]
    Icalc,          \* self.Icalc[p][k] (LeBail variants)
    sf,             \* self.sf[p][k] (Rietveld variants)
    spectrum_sim,   \* self.spectrum_sim: the last synthesised spectrum
    Rwp,            \* self.Rwp, self.gofF: set by the last residual evaluation
    niter,          \* self.niter
    Rwplist,        \* self.Rwplist
    gofFlist,       \* self.gofFlist
    res,            \* self.res: the least-squares result kept by the model
    pc,             \* "idle", or "solving" while least_squares runs
    lm,             \* the lmfit.Parameters handed to the Minimizer
    nfev,           \* residual evaluations of the solve in progress
    trial,          \* the trial values of the last residual evaluation
    best,           \* the solver's current best point
    raised,         \* the last call on the model ended with an exception
    nset,           \* how many times the user has changed a vary flag
    \* ---- the reflection generator, exercised function by function
    hk,             \* input and result of one Material_LeBail operation
    \* ---- the Spectrum class
    sp,             \* two Spectrum objects and the result of the last operation
    \* ---- the Parameters class and the parameter set of a model under construction
    pd,             \* param_dict, the dumped file and the result of the last operation
    \* ---- the peak profile and the observed intensities
    pv,             \* the shape attributes of a model and the last profile computed
    \* ---- models of several phases
    ph              \* the phase collection, the per-phase data and the last operation

vars == << variant, params, attrs, FP, mat, tth, Icalc, sf, spectrum_sim, Rwp,
           niter, Rwplist, gofFlist, res, pc, lm, nfev, trial, best, raised, nset, hk,
           sp, pd, pv, ph >>

-----------------------------------------------------------------------------
(* Vectors, matrices *)

Abs(x) == IF x < 0 THEN 0 - x ELSE x

Max2(x, y) == IF x >= y THEN x ELSE y

\* np.dot(s, v) for a 3x3 matrix s and a vector v
Dot(s, v) ==
    << s[1][1] * v[1] + s[1][2] * v[2] + s[1][3] * v[3],
       s[2][1] * v[1] + s[2][2] * v[2] + s[2][3] * v[3],
       s[3][1] * v[1] + s[3][2] * v[2] + s[3][3] * v[3] >>

\* np.dot(u, np.dot(m, u))
Quad(m, u) ==
    LET w == Dot(m, u) IN u[1] * w[1] + u[2] * w[2] + u[3] * w[3]

Det3(m) ==
      m[1][1] * (m[2][2] * m[3][3] - m[2][3] * m[3][2])
    - m[1][2] * (m[2][1] * m[3][3] - m[2][3] * m[3][1])
    + m[1][3] * (m[2][1] * m[3][2] - m[2][2] * m[3][1])

\* the adjugate: inverse = Adj3(m) / Det3(m)
Adj3(m) ==
    << << m[2][2] * m[3][3] - m[2][3] * m[3][2],
          m[1][3] * m[3][2] - m[1][2] * m[3][3],
          m[1][2] * m[2][3] - m[1][3] * m[2][2] >>,
       << m[2][3] * m[3][1] - m[2][1] * m[3][3],
          m[1][1] * m[3][3] - m[1][3] * m[3][1],
          m[1][3] * m[2][1] - m[1][1] * m[2][3] >>,
       << m[2][1] * m[3][2] - m[2][2] * m[3][1],
          m[1][2] * m[3][1] - m[1][1] * m[3][2],
          m[1][1] * m[2][2] - m[1][2] * m[2][1] >> >>

SumV(g) == g[1] + g[2] + g[3]

MaxV(g) == Max2(g[1], Max2(g[2], g[3]))

-----------------------------------------------------------------------------
(* Material_LeBail: metric tensors and lengths *)

\* 2*cos(angle) for the angles of the model
Cos2(ang) == CASE ang = 90 -> 0 [] ang = 120 -> 0 - 1 [] ang = 60 -> 1

\* _calcrmt: the direct metric tensor of the lattice parameters
\* <<a, b, c, alpha, beta, gamma>>, doubled; rmt is its inverse.
_calcrmt(lparms) ==
    LET a == lparms[1]
        b == lparms[2]
        c == lparms[3]
        ca == Cos2(lparms[4])
        cb == Cos2(lparms[5])
        cg == Cos2(lparms[6])
    IN  << << 2 * a * a, a * b * cg, a * c * cb >>,
           << a * b * cg, 2 * b * b, b * c * ca >>,
           << a * c * cb, b * c * ca, 2 * c * c >> >>

\* CalcLength(u, 'r') squared, as the fraction num / den:
\* rmt = inverse(dmt) = 2 * Adj3(2 dmt) / Det3(2 dmt)
CalcLength(u, dmt) == [num |-> 2 * Quad(Adj3(dmt), u), den |-> Det3(dmt)]

\* 1. / CalcLength(g, 'r') > dmin   (lengths and dmin are positive)
DspGreater(g, dmt, dmin) ==
    LET q == CalcLength(g, dmt) IN q.den > dmin * dmin * q.num

\* 1. / CalcLength(g, 'r') >= dmin
DspAtLeast(g, dmt, dmin) ==
    LET q == CalcLength(g, dmt) IN q.den >= dmin * dmin * q.num

\* the loops of CalcMaxGIndex: the first n >= 1 whose axis reflection has d <= dmin
RECURSIVE MaxIndexLoop(_, _, _, _)
MaxIndexLoop(axis, n, dmt, dmin) ==
    LET g == [i \in 1..3 |-> IF i = axis THEN n ELSE 0]
    IN  IF DspGreater(g, dmt, dmin) THEN MaxIndexLoop(axis, n + 1, dmt, dmin) ELSE n

CalcMaxGIndex(dmt, dmin) ==
    [ih |-> MaxIndexLoop(1, 1, dmt, dmin),
     ik |-> MaxIndexLoop(2, 1, dmt, dmin),
     il |-> MaxIndexLoop(3, 1, dmt, dmin)]

-----------------------------------------------------------------------------
(* Material_LeBail: systematic absences.  A filter returns the record        *)
(* [err, hkls]: err = "" and the filtered list, or the exception it raised.  *)
(* "UnboundLocalError" is Python's error for a mask variable that no branch  *)
(* assigned before it is used.                                               *)

Ok(l) == [err |-> "", hkls |-> l]

Err(e) == [err |-> e, hkls |-> << >>]

\* np.mod(x + off, m) != 0
NotMult(x, off, m) == (x + off) % m # 0

Odd(x) == NotMult(x, 100, 2)

\* the centering branch of Allowed_HKLs: the mask of one row, or the error
CenteringKnown(centering) == centering \in {"P", "F", "I", "A", "B", "C", "R"}

\* a variant of the centering test that uses the body-centering rule for F
CenteringMask_sumEven(centering, g) ==
    IF centering = "P" THEN TRUE ELSE (g[1] + g[2] + g[3] + 100) % 2 = 0

CenteringMask(centering, g) ==
    CASE centering = "P" -> TRUE
      [] centering = "F" ->
            LET seo == ((g[1] + 100) % 2) + ((g[2] + 100) % 2) + ((g[3] + 100) % 2)
            IN  ~(seo = 1 \/ seo = 2)
      [] centering = "I" -> (g[1] + g[2] + g[3] + 100) % 2 = 0
      [] centering = "A" -> (g[2] + g[3] + 100) % 2 = 0
      [] centering = "B" -> (g[1] + g[3] + 100) % 2 = 0
      [] centering = "C" -> (g[1] + g[2] + 100) % 2 = 0
      [] centering = "R" -> (0 - g[1] + g[2] + g[3] + 90) % 3 = 0

omitscrewaxisabsences(hkllist, ax, iax, latticeType) ==
    LET h(g) == g[1]
        k(g) == g[2]
        l(g) == g[3]
        Keep(M(_)) == Ok(SelectSeq(hkllist, M))
    IN
    CASE latticeType = "triclinic" -> Ok(hkllist)
      [] latticeType = "monoclinic" ->
            IF ax # "2_1" THEN Err("RuntimeError")
            ELSE IF iax = 1
                 THEN Keep(LAMBDA g : ~((h(g) = 0 /\ l(g) = 0) /\ Odd(k(g))))
                 ELSE Err("RuntimeError")
      [] latticeType = "orthorhombic" ->
            IF ax # "2_1" THEN Err("RuntimeError")
            ELSE CASE iax = 0 -> Keep(LAMBDA g : ~((k(g) = 0 /\ l(g) = 0) /\ Odd(h(g))))
                   [] iax = 1 -> Keep(LAMBDA g : ~((h(g) = 0 /\ l(g) = 0) /\ Odd(k(g))))
                   [] iax = 2 -> Keep(LAMBDA g : ~((h(g) = 0 /\ k(g) = 0) /\ Odd(l(g))))
                   [] OTHER -> Ok(hkllist)
      [] latticeType = "tetragonal" ->
            CASE iax = 0 ->
                    CASE ax = "4_2" ->
                            Keep(LAMBDA g : ~((h(g) = 0 /\ k(g) = 0) /\ Odd(l(g))))
                      [] ax \in {"4_1", "4_3"} ->
                            Keep(LAMBDA g : ~((h(g) = 0 /\ k(g) = 0) /\ NotMult(l(g), 100, 4)))
                      [] OTHER -> Err("UnboundLocalError")
              [] iax = 1 ->
                    IF ax = "2_1"
                    THEN Keep(LAMBDA g : LET mask1 == ~((k(g) = 0 /\ l(g) = 0) /\ Odd(h(g)))
                                             mask2 == ~((h(g) = 0 /\ l(g) = 0) /\ Odd(k(g)))
                                         IN  ~(~mask1 \/ ~mask2))
                    ELSE Err("UnboundLocalError")
              [] OTHER -> Ok(hkllist)
      [] latticeType = "trigonal" ->
            IF iax = 0
            THEN IF ax \in {"3_1", "3_2"}
                 THEN Keep(LAMBDA g : ~((h(g) = 0 /\ k(g) = 0) /\ NotMult(l(g), 90, 3)))
                 ELSE Err("UnboundLocalError")
            ELSE Err("RuntimeError")
      [] latticeType = "hexagonal" ->
            IF iax = 0
            THEN CASE ax = "6_3" ->
                        Keep(LAMBDA g : ~((h(g) = 0 /\ k(g) = 0) /\ Odd(l(g))))
                   [] ax \in {"3_1", "3_2", "6_2", "6_4"} ->
                        Keep(LAMBDA g : ~((h(g) = 0 /\ k(g) = 0) /\ NotMult(l(g), 90, 3)))
                   [] ax \in {"6_1", "6_5"} ->
                        Keep(LAMBDA g : ~((h(g) = 0 /\ k(g) = 0) /\ NotMult(l(g), 120, 6)))
                   [] OTHER -> Err("UnboundLocalError")
            ELSE Err("RuntimeError")
      [] latticeType = "cubic" ->
            CASE ax \in {"2_1", "4_2"} ->
                    Keep(LAMBDA g : LET mask1 == ~((h(g) = 0 /\ k(g) = 0) /\ Odd(l(g)))
                                        mask2 == ~((h(g) = 0 /\ l(g) = 0) /\ Odd(k(g)))
                                        mask3 == ~((k(g) = 0 /\ l(g) = 0) /\ Odd(h(g)))
                                    IN  ~(~mask1 \/ (~mask2 \/ ~mask3)))
              [] ax \in {"4_1", "4_3"} ->
                    Keep(LAMBDA g : LET mask1 == ~((h(g) = 0 /\ k(g) = 0) /\ NotMult(l(g), 100, 4))
                                        mask2 == ~((h(g) = 0 /\ l(g) = 0) /\ NotMult(k(g), 100, 4))
                                        mask3 == ~((k(g) = 0 /\ l(g) = 0) /\ NotMult(h(g), 100, 4))
                                    IN  ~(~mask1 \/ (~mask2 \/ ~mask3)))
              [] OTHER -> Err("UnboundLocalError")

omitglideplaneabsences(hkllist, plane, ip, latticeType) ==
    LET h(g) == g[1]
        k(g) == g[2]
        l(g) == g[3]
        Keep(M(_)) == Ok(SelectSeq(hkllist, M))
        \* mask = not (mask1 and mask2), mask2 chosen by the plane
        Zone(Z(_), M2(_)) == Keep(LAMBDA g : ~(Z(g) /\ M2(g)))
    IN
    CASE latticeType = "triclinic" -> Ok(hkllist)
      [] latticeType = "monoclinic" ->
            IF ip = 1
            THEN CASE plane = "c" -> Zone(LAMBDA g : k(g) = 0, LAMBDA g : Odd(l(g)))
                   [] plane = "a" -> Zone(LAMBDA g : k(g) = 0, LAMBDA g : Odd(h(g)))
                   [] plane = "n" -> Zone(LAMBDA g : k(g) = 0, LAMBDA g : Odd(h(g) + l(g)))
                   [] OTHER -> Err("UnboundLocalError")
            ELSE Ok(hkllist)
      [] latticeType = "orthorhombic" ->
            CASE ip = 0 ->
                    CASE plane = "b" -> Zone(LAMBDA g : h(g) = 0, LAMBDA g : Odd(k(g)))
                      [] plane = "c" -> Zone(LAMBDA g : h(g) = 0, LAMBDA g : Odd(l(g)))
                      [] plane = "n" -> Zone(LAMBDA g : h(g) = 0, LAMBDA g : Odd(k(g) + l(g)))
                      [] plane = "d" ->
                            Zone(LAMBDA g : h(g) = 0, LAMBDA g : NotMult(k(g) + l(g), 100, 4))
                      [] OTHER -> Err("UnboundLocalError")
              [] ip = 1 ->
                    CASE plane = "c" -> Zone(LAMBDA g : k(g) = 0, LAMBDA g : Odd(l(g)))
                      [] plane = "a" -> Zone(LAMBDA g : k(g) = 0, LAMBDA g : Odd(h(g)))
                      [] plane = "n" -> Zone(LAMBDA g : k(g) = 0, LAMBDA g : Odd(h(g) + l(g)))
                      [] plane = "d" ->
                            Zone(LAMBDA g : k(g) = 0, LAMBDA g : NotMult(h(g) + l(g), 100, 4))
                      [] OTHER -> Err("UnboundLocalError")
              [] ip = 2 ->
                    CASE plane = "a" -> Zone(LAMBDA g : l(g) = 0, LAMBDA g : Odd(h(g)))
                      [] plane = "b" -> Zone(LAMBDA g : l(g) = 0, LAMBDA g : Odd(k(g)))
                      [] plane = "n" -> Zone(LAMBDA g : l(g) = 0, LAMBDA g : Odd(h(g) + k(g)))
                      [] plane = "d" ->
                            Zone(LAMBDA g : l(g) = 0, LAMBDA g : NotMult(h(g) + k(g), 100, 4))
                      [] OTHER -> Err("UnboundLocalError")
              [] OTHER -> Ok(hkllist)
      [] latticeType = "tetragonal" ->
            CASE ip = 0 ->
                    CASE plane = "a" -> Zone(LAMBDA g : l(g) = 0, LAMBDA g : Odd(h(g)))
                      [] plane = "b" -> Zone(LAMBDA g : l(g) = 0, LAMBDA g : Odd(k(g)))
                      [] plane = "n" -> Zone(LAMBDA g : l(g) = 0, LAMBDA g : Odd(h(g) + k(g)))
                      [] plane = "d" ->
                            Zone(LAMBDA g : l(g) = 0, LAMBDA g : NotMult(h(g) + k(g), 100, 4))
                      [] OTHER -> Err("UnboundLocalError")
              [] ip = 1 ->
                    LET Two(M3(_), M4(_)) ==
                            Keep(LAMBDA g : LET mask1 == ~(h(g) = 0 /\ M3(g))
                                                mask2 == ~(k(g) = 0 /\ M4(g))
                                            IN  ~(~mask1 \/ ~mask2))
                    IN  CASE plane \in {"a", "b"} ->
                                Two(LAMBDA g : Odd(k(g)), LAMBDA g : Odd(h(g)))
                          [] plane = "c" ->
                                Two(LAMBDA g : Odd(l(g)), LAMBDA g : Odd(l(g)))
                          [] plane = "n" ->
                                Two(LAMBDA g : Odd(k(g) + l(g)), LAMBDA g : Odd(h(g) + l(g)))
                          [] plane = "d" ->
                                Two(LAMBDA g : NotMult(k(g) + l(g), 100, 4),
                                    LAMBDA g : NotMult(h(g) + l(g), 100, 4))
                          [] OTHER -> Err("UnboundLocalError")
              [] ip = 2 ->
                    CASE plane \in {"c", "n"} ->
                            Zone(LAMBDA g : Abs(h(g)) = Abs(k(g)), LAMBDA g : Odd(l(g)))
                      [] plane = "d" ->
                            Zone(LAMBDA g : Abs(h(g)) = Abs(k(g)),
                                 LAMBDA g : NotMult(2 * h(g) + l(g), 100, 4))
                      [] OTHER -> Err("UnboundLocalError")
              [] OTHER -> Ok(hkllist)
      [] latticeType = "trigonal" ->
            IF plane # "c" THEN Err("RuntimeError")
            ELSE CASE ip = 1 ->
                        Zone(LAMBDA g : h(g) = 0 \/ (k(g) = 0 \/ h(g) = 0 - k(g)),
                             LAMBDA g : Odd(l(g)))
                   [] ip = 2 ->
                        Zone(LAMBDA g : k(g) = h(g) \/ (h(g) = 0 - 2 * k(g) \/ 0 - 2 * h(g) = k(g)),
                             LAMBDA g : Odd(l(g)))
                   [] OTHER -> Err("UnboundLocalError")
      [] latticeType = "hexagonal" ->
            IF plane # "c" THEN Err("RuntimeError")
            ELSE CASE ip = 2 ->
                        Zone(LAMBDA g : h(g) = k(g) \/ (h(g) = 0 - 2 * k(g) \/ 0 - 2 * h(g) = k(g)),
                             LAMBDA g : Odd(l(g)))
                   [] ip = 1 ->
                        Zone(LAMBDA g : k(g) = 0 \/ (h(g) = 0 \/ k(g) = 0 - h(g)),
                             LAMBDA g : Odd(l(g)))
                   [] OTHER -> Err("UnboundLocalError")
      [] latticeType = "cubic" ->
            LET Three(M4(_), M5(_), M6(_)) ==
                    Keep(LAMBDA g : LET mask1 == ~(h(g) = 0 /\ M4(g))
                                        mask2 == ~(k(g) = 0 /\ M5(g))
                                        mask3 == ~(l(g) = 0 /\ M6(g))
                                    IN  ~(~mask1 \/ (~mask2 \/ ~mask3)))
                Diag(M4(_), M5(_), M6(_)) ==
                    Keep(LAMBDA g : LET mask1 == ~(Abs(h(g)) = Abs(k(g)) /\ M4(g))
                                        mask2 == ~(Abs(k(g)) = Abs(l(g)) /\ M5(g))
                                        mask3 == ~(Abs(h(g)) = Abs(l(g)) /\ M6(g))
                                    IN  ~(~mask1 \/ (~mask2 \/ ~mask3)))
            IN
            CASE ip = 0 ->
                    CASE plane = "a" ->
                            Keep(LAMBDA g :
                                LET mask1 == (h(g) = 0 /\ Odd(k(g))) \/ (h(g) = 0 /\ Odd(l(g)))
                                    mask2 == (k(g) = 0 /\ Odd(h(g))) \/ (k(g) = 0 /\ Odd(l(g)))
                                    mask3 == l(g) = 0 /\ Odd(h(g))
                                IN  ~(mask1 \/ (mask2 \/ mask3)))
                      [] plane = "b" ->
                            Keep(LAMBDA g : ~((h(g) = 0 /\ Odd(k(g))) \/ (l(g) = 0 /\ Odd(k(g)))))
                      [] plane = "c" ->
                            Keep(LAMBDA g : ~((h(g) = 0 /\ Odd(l(g))) \/ (k(g) = 0 /\ Odd(l(g)))))
                      [] plane = "n" ->
                            Three(LAMBDA g : Odd(k(g) + l(g)),
                                  LAMBDA g : Odd(h(g) + l(g)),
                                  LAMBDA g : Odd(h(g) + k(g)))
                      [] plane = "d" ->
                            Three(LAMBDA g : NotMult(k(g) + l(g), 100, 4),
                                  LAMBDA g : NotMult(h(g) + l(g), 100, 4),
                                  LAMBDA g : NotMult(h(g) + k(g), 100, 4))
                      [] OTHER -> Err("RuntimeError")
              [] ip = 2 ->
                    CASE plane \in {"a", "b", "c", "n"} ->
                            Diag(LAMBDA g : Odd(l(g)), LAMBDA g : Odd(h(g)), LAMBDA g : Odd(k(g)))
                      [] plane = "d" ->
                            Diag(LAMBDA g : NotMult(2 * h(g) + l(g), 100, 4),
                                 LAMBDA g : NotMult(h(g) + 2 * k(g), 100, 4),
                                 LAMBDA g : NotMult(2 * h(g) + k(g), 100, 4))
                      [] OTHER -> Err("RuntimeError")
              [] OTHER -> Ok(hkllist)

\* NonSymmorphicAbsences: planes and axes are SYS_AB[sgnum][0] and [1], one
\* code ('' for none) per symmetry direction 0, 1, 2
RECURSIVE GlideLoop(_, _, _, _)
GlideLoop(r, planes, ip, latticeType) ==
    IF r.err # "" \/ ip > 2 THEN r
    ELSE GlideLoop(IF planes[ip + 1] # ""
                   THEN omitglideplaneabsences(r.hkls, planes[ip + 1], ip, latticeType)
                   ELSE r,
                   planes, ip + 1, latticeType)

RECURSIVE ScrewLoop(_, _, _, _)
ScrewLoop(r, axes, iax, latticeType) ==
    IF r.err # "" \/ iax > 2 THEN r
    ELSE ScrewLoop(IF axes[iax + 1] # ""
                   THEN omitscrewaxisabsences(r.hkls, axes[iax + 1], iax, latticeType)
                   ELSE r,
                   axes, iax + 1, latticeType)

NonSymmorphicAbsences(hkllist, sg) ==
    ScrewLoop(GlideLoop(Ok(hkllist), sg.planes, 0, sg.latticeType),
              sg.axes, 0, sg.latticeType)

\* Allowed_HKLs; sg holds sg_hmsymbol[0] (centering), symmorphic, latticeType
\* and the SYS_AB row of the space group
Allowed_HKLs(hkllist, sg) ==
    IF ~CenteringKnown(sg.centering) THEN Err("RuntimeError")
    ELSE LET hkls == SelectSeq(hkllist, LAMBDA g : CenteringMask(sg.centering, g))
         IN  IF ~sg.symmorphic THEN NonSymmorphicAbsences(hkls, sg) ELSE Ok(hkls)

-----------------------------------------------------------------------------
(* Material_LeBail: point group operators, stars, unique reflections *)

\* The direct-space operators of the Laue group that symmetry.GenerateSGSym
\* returns (SYM_PG_d_laue), identity first: signed permutation matrices.
Perms == << <<1, 2, 3>>, <<2, 3, 1>>, <<3, 1, 2>>, <<2, 1, 3>>, <<1, 3, 2>>, <<3, 2, 1>> >>

Signs == << <<1, 1, 1>>, <<-1, -1, -1>>, <<-1, 1, -1>>, <<1, -1, 1>>,
            <<1, -1, -1>>, <<-1, 1, 1>>, <<-1, -1, 1>>, <<1, 1, -1>> >>

PermSign(p, sg) == [i \in 1..3 |-> [j \in 1..3 |-> IF Perms[p][i] = j THEN Signs[sg][i] ELSE 0]]

\* np perms x ns signs, the signs running fastest
OpList(np, ns) == [n \in 1..(np * ns) |-> PermSign(((n - 1) \div ns) + 1, ((n - 1) % ns) + 1)]

MatMul(x, y) ==
    [i \in 1..3 |-> [j \in 1..3 |-> x[i][1] * y[1][j] + x[i][2] * y[2][j] + x[i][3] * y[3][j]]]

Neg3(x) == [i \in 1..3 |-> [j \in 1..3 |-> 0 - x[i][j]]]

Ident3 == << <<1, 0, 0>>, <<0, 1, 0>>, <<0, 0, 1>> >>

\* the three-fold and six-fold rotations about c on hexagonal axes
Rot3 == << <<0, -1, 0>>, <<1, -1, 0>>, <<0, 0, 1>> >>

Rot6 == << <<1, -1, 0>>, <<1, 0, 0>>, <<0, 0, 1>> >>

SYM_PG_d_laue(laue) ==
    CASE laue = "-1" -> OpList(1, 2)
      [] laue = "2/m" -> OpList(1, 4)
      [] laue = "mmm" -> OpList(1, 8)
      [] laue = "4/mmm" -> << PermSign(1, 1), PermSign(4, 1), PermSign(1, 2), PermSign(4, 2),
                              PermSign(1, 3), PermSign(4, 3), PermSign(1, 4), PermSign(4, 4),
                              PermSign(1, 5), PermSign(4, 5), PermSign(1, 6), PermSign(4, 6),
                              PermSign(1, 7), PermSign(4, 7), PermSign(1, 8), PermSign(4, 8) >>
      [] laue = "m-3m" -> OpList(6, 8)
      [] laue = "-3" -> << Ident3, Rot3, MatMul(Rot3, Rot3),
                           Neg3(Ident3), Neg3(Rot3), Neg3(MatMul(Rot3, Rot3)) >>
      [] laue = "6/m" -> << Ident3, Rot6, Rot3, MatMul(Rot6, Rot3), MatMul(Rot3, Rot3),
                            MatMul(Rot6, MatMul(Rot3, Rot3)),
                            Neg3(Ident3), Neg3(Rot6), Neg3(Rot3), Neg3(MatMul(Rot6, Rot3)),
                            Neg3(MatMul(Rot3, Rot3)), Neg3(MatMul(Rot6, MatMul(Rot3, Rot3))) >>

\* np.round(n / d) for d > 0: to the nearest integer, halves to the even one
Round(n, d) ==
    LET q == n \div d
        r == n - q * d
    IN  IF 2 * r < d THEN q
        ELSE IF 2 * r > d THEN q + 1
        ELSE IF q % 2 = 0 THEN q ELSE q + 1

\* GenerateRecipPGSym: the first operator is kept, every other one becomes
\* round(dmt . g . rmt)
GenerateRecipPGSym(sym_d, dmt) ==
    [n \in 1..Len(sym_d) |->
        IF n = 1 THEN sym_d[1]
        ELSE LET m == MatMul(dmt, MatMul(sym_d[n], Adj3(dmt)))
             IN  [i \in 1..3 |-> [j \in 1..3 |-> Round(m[i][j], Det3(dmt))]]]

InSeq(x, s) == \E j \in 1..Len(s) : s[j] = x

\* a Python for loop over range(lo, hi + 1) that carries the value s through
\* the loop body Step(i, s).  The range is split in halves, and the first
\* half is evaluated before the second starts (done = done holds for every
\* value), so that the evaluation stays shallow.
RECURSIVE ForLoop(_, _, _, _)
ForLoop(Step(_, _), lo, hi, s) ==
    IF lo > hi THEN s
    ELSE IF lo = hi THEN Step(lo, s)
    ELSE LET mid == (lo + hi) \div 2
             done == ForLoop(Step, lo, mid, s)
         IN  IF done = done THEN ForLoop(Step, mid + 1, hi, done) ELSE s

\* CalcStar(v, 'r', applyLaue=True): v first, then each new image in operator order
CalcStar(v, sym) ==
    ForLoop(LAMBDA i, vsym : LET vp == Dot(sym[i], v)
                             IN  IF InSeq(vp, vsym) THEN vsym ELSE Append(vsym, vp),
            1, Len(sym), << v >>)

\* first loop of ChooseSymmetric: mask[rid] = False for every listed row that
\* equals a member geqv[1:] of the star of a row whose mask is still True;
\* the value carried is the set of row numbers whose mask is False
ChooseMask(hkllist, sym) ==
    ForLoop(LAMBDA i, off :
                IF i \notin off
                THEN LET geqv == CalcStar(hkllist[i], sym)
                         rest == {geqv[j] : j \in 2..Len(geqv)}
                     IN  {j \in 1..Len(hkllist) : j \in off \/ hkllist[j] \in rest}
                ELSE off,
            1, Len(hkllist), {})

\* a variant of the representative choice that takes the smallest sum
ArgMinSum(geqv) ==
    CHOOSE loc \in 1..Len(geqv) :
        \A j \in 1..Len(geqv) : SumV(geqv[loc]) <= SumV(geqv[j])

\* np.argmax(np.sum(geqv, axis=1)): the first index of the largest sum
ArgMaxSum(geqv) ==
    CHOOSE loc \in 1..Len(geqv) :
        /\ \A j \in 1..Len(geqv) : SumV(geqv[j]) <= SumV(geqv[loc])
        /\ \A j \in 1..(loc - 1) : SumV(geqv[j]) < SumV(geqv[loc])

ChooseSymmetric(hkllist, sym) ==
    IF Len(hkllist) = 0
    THEN Err("IndexError")     \* hkllist[mask,:] on an array of shape (0,)
    ELSE LET gmax(geqv) == geqv[ArgMaxSum(geqv)]
             hkl_max(hkl) == [n \in 1..Len(hkl) |-> gmax(CalcStar(hkl[n], sym))]
             Masked(off) == SelectSeq([j \in 1..Len(hkllist) |-> j], LAMBDA j : j \notin off)
             Rows(idx) == [n \in 1..Len(idx) |-> hkllist[idx[n]]]
         IN  Ok(hkl_max(Rows(Masked(ChooseMask(hkllist, sym)))))

\* the sort key of SortHKL: order = ['glen','max','sum','l','k','h']
SortKey(g, dmt) == << CalcLength(g, dmt).num, MaxV(g), SumV(g), g[3], g[2], g[1] >>

RECURSIVE LexLess(_, _, _)
LexLess(x, y, i) ==
    IF i > Len(x) THEN FALSE
    ELSE IF x[i] # y[i] THEN x[i] < y[i]
    ELSE LexLess(x, y, i + 1)

\* hkllist[np.argsort(a, order=...)]: row n of the result is the row that has
\* n - 1 rows before it in key order (equal keys are equal rows)
SortHKL(hkllist, dmt) ==
    LET Before(i, j) ==
            \/ LexLess(SortKey(hkllist[i], dmt), SortKey(hkllist[j], dmt), 1)
            \/ SortKey(hkllist[i], dmt) = SortKey(hkllist[j], dmt) /\ i < j
        Rank(j) == 1 + Cardinality({i \in 1..Len(hkllist) : Before(i, j)})
    IN  [n \in 1..Len(hkllist) |->
            hkllist[CHOOSE j \in 1..Len(hkllist) : Rank(j) = n]]

\* the candidate list of getHKLs: h from ih down to -ih, k from ik down to
\* -ik, l from il down to 0, l running fastest
Candidates(ih, ik, il) ==
    LET nk == 2 * ik + 1
        nl == il + 1
    IN  [n \in 1..((2 * ih + 1) * nk * nl) |->
            << ih - ((n - 1) \div (nk * nl)),
               ik - (((n - 1) \div nl) % nk),
               il - ((n - 1) % nl) >>]

\* the rows of getHKLs that are not the origin and have 1/|g| >= dmin
hkl_dsp(hkl_allowed, dmt, dmin) ==
    SelectSeq(hkl_allowed, LAMBDA g : Abs(g[1]) + Abs(g[2]) + Abs(g[3]) # 0
                                      /\ DspAtLeast(g, dmt, dmin))

\* getHKLs(dmin) of a Material m with fields sg, dmt, ih, ik, il, SYM_PG_r_laue
getHKLs(m, dmin) ==
    LET Sorted(hkl) == IF hkl.err # "" THEN hkl ELSE Ok(SortHKL(hkl.hkls, m.dmt))
        Unique(hkl_allowed) ==
            IF hkl_allowed.err # "" THEN hkl_allowed
            ELSE Sorted(ChooseSymmetric(hkl_dsp(hkl_allowed.hkls, m.dmt, dmin),
                                        m.SYM_PG_r_laue))
    IN  Unique(Allowed_HKLs(Candidates(m.ih, m.ik, m.il), m.sg))

\* getTTh(wavelength): one position per reflection with |sth| <= 1, where
\* sth = glen * wavelength / 2; the position is kept as glen squared
getTTh(hkls, dmt, wavelength) ==
    LET glen == [n \in 1..Len(hkls) |-> CalcLength(hkls[n], dmt)]
    IN  SelectSeq(glen, LAMBDA q : wavelength * wavelength * q.num <= 4 * q.den)

-----------------------------------------------------------------------------
(* Material_LeBail.__init__ *)

\* Material_LeBail(fhdf, xtal, dmin): xtal = [lparms, sg] is what _readHDF and
\* the symmetry tables give for the crystal.  The result carries err # "" when
\* the constructor raised.
Material_LeBail(xtal, dmin) ==
    LET With(m, r) ==
            [lparms |-> m.lparms, dmt |-> m.dmt, dmin |-> m.dmin, sg |-> m.sg,
             SYM_PG_r_laue |-> m.SYM_PG_r_laue, ih |-> m.ih, ik |-> m.ik, il |-> m.il,
             hkls |-> r.hkls, err |-> r.err]
        Listed(m) == With(m, getHKLs(m, dmin))
        Indexed(dmt, idx) ==
            Listed([lparms |-> xtal.lparms, dmt |-> dmt, dmin |-> dmin, sg |-> xtal.sg,
                    SYM_PG_r_laue |-> GenerateRecipPGSym(SYM_PG_d_laue(xtal.sg.laue), dmt),
                    ih |-> idx.ih, ik |-> idx.ik, il |-> idx.il])
        Metric(dmt) == Indexed(dmt, CalcMaxGIndex(dmt, dmin))
    IN  Metric(_calcrmt(xtal.lparms))

-----------------------------------------------------------------------------
(* The crystals the model is run on *)

Centerings == {"P", "F", "I", "A", "B", "C", "R"}

\* glide plane codes; "e" is a code no branch of omitglideplaneabsences knows
PlaneCodes == {"a", "b", "c", "n", "d", "e"}

\* screw axis codes; "5_1" is a code no branch of omitscrewaxisabsences knows
ScrewCodes == {"2_1", "3_1", "4_1", "4_2", "6_1", "6_2", "6_3", "5_1"}

NoCodes == << "", "", "" >>

OneCode(c, i) == [j \in 1..3 |-> IF j = i + 1 THEN c ELSE ""]

\* lattice system, lattice parameters and Laue group of the test crystals
Lattices ==
    { [latticeType |-> "triclinic",    lparms |-> <<10, 12, 14, 60, 60, 60>>,  laue |-> "-1"],
      [latticeType |-> "monoclinic",   lparms |-> <<10, 12, 14, 90, 120, 90>>, laue |-> "2/m"],
      [latticeType |-> "orthorhombic", lparms |-> <<10, 12, 14, 90, 90, 90>>,  laue |-> "mmm"],
      [latticeType |-> "tetragonal",   lparms |-> <<10, 10, 14, 90, 90, 90>>,  laue |-> "4/mmm"],
      [latticeType |-> "trigonal",     lparms |-> <<10, 10, 14, 90, 90, 120>>, laue |-> "-3"],
      [latticeType |-> "hexagonal",    lparms |-> <<10, 10, 14, 90, 90, 120>>, laue |-> "6/m"],
      [latticeType |-> "cubic",        lparms |-> <<10, 10, 10, 90, 90, 90>>,  laue |-> "m-3m"] }

\* rows of the systematic-absence table: no code, one glide plane, one screw
\* axis, or a plane and an axis on the same direction
AbsenceRows ==
    { [planes |-> NoCodes, axes |-> NoCodes] }
    \cup { [planes |-> OneCode(c, i), axes |-> NoCodes] : c \in PlaneCodes, i \in 0..2 }
    \cup { [planes |-> NoCodes, axes |-> OneCode(c, i)] : c \in ScrewCodes, i \in 0..2 }
    \cup { [planes |-> OneCode("c", i), axes |-> OneCode("2_1", i)] : i \in 0..2 }
    \cup { [planes |-> << "d", "", "c" >>, axes |-> << "4_1", "", "" >>] }

\* resolution limits; the last exceeds every d-spacing of the test crystals
DminVals == {5, 7, 15}

\* centerings tried together with glide planes and screw axes
NonSymmorphicCenterings == {"P", "I", "F"}

\* a long oblique cell: c = 28, alpha = beta = 120
LongOblique == <<10, 12, 28, 120, 120, 90>>

\* a symmorphic crystal of every lattice and centering (and of the unknown
\* centering "X") at every resolution; a non-symmorphic one of every lattice
\* and absence row at the finest resolution; the long oblique cell, primitive
Xtals ==
    { [lparms |-> lat.lparms, dmin |-> 5,
       sg |-> [latticeType |-> lat.latticeType, laue |-> lat.laue, centering |-> cen,
               symmorphic |-> FALSE, planes |-> row.planes, axes |-> row.axes]] :
          lat \in Lattices, cen \in NonSymmorphicCenterings, row \in AbsenceRows }
    \cup
    { [lparms |-> lat.lparms, dmin |-> d,
       sg |-> [latticeType |-> lat.latticeType, laue |-> lat.laue, centering |-> cen,
               symmorphic |-> TRUE, planes |-> NoCodes, axes |-> NoCodes]] :
          lat \in Lattices, cen \in Centerings \cup {"X"}, d \in DminVals }
    \cup
    { [lparms |-> LongOblique, dmin |-> d,
       sg |-> [latticeType |-> "triclinic", laue |-> "-1", centering |-> "P",
               symmorphic |-> TRUE, planes |-> NoCodes, axes |-> NoCodes]] :
          d \in DminVals \ {15} }

-----
(* Reflection generation: the Material_LeBail operations applied to the
   crystals above.  hk holds the crystal, the operation last applied, the list
   it was given and what it returned; each operation is applied to the crystal
   as constructed.  No refinement model exists here. *)

\* the list getHKLs hands to Allowed_HKLs for crystal x at resolution dmin
BoxOf(x, dmin) ==
    LET idx == CalcMaxGIndex(_calcrmt(x.lparms), dmin)
    IN  Candidates(idx.ih, idx.ik, idx.il)

SymOf(x) == GenerateRecipPGSym(SYM_PG_d_laue(x.sg.laue), _calcrmt(x.lparms))

NoModel ==
    /\ variant = "none" /\ params = << >> /\ attrs = << >> /\ FP = << >>
    /\ mat = << >> /\ tth = << >> /\ Icalc = << >> /\ sf = << >>
    /\ spectrum_sim = << >> /\ Rwp = << >> /\ niter = 0
    /\ Rwplist = << >> /\ gofFlist = << >> /\ res = << >> /\ pc = "none"
    /\ lm = << >> /\ nfev = 0 /\ trial = << >> /\ best = << >> /\ raised = FALSE
    /\ nset = 0

ModelVars == << variant, params, attrs, FP, mat, tth, Icalc, sf, spectrum_sim, Rwp,
                niter, Rwplist, gofFlist, res, pc, lm, nfev, trial, best, raised, nset >>

\* no Spectrum, no Parameters object and no profile under study
NoSpectrum == sp = [op |-> "none"]

NoParameters == pd = [op |-> "none"]

NoProfile == pv = [op |-> "none"]

NoPhases == ph = [op |-> "none"]

InitHKL ==
    /\ NoModel /\ NoPhases /\ NoSpectrum /\ NoParameters /\ NoProfile
    /\ \E x \in Xtals :
          hk = [xtal |-> x, dmin |-> x.dmin, op |-> "none", ip |-> 0,
                in |-> << >>, out |-> Ok(<< >>)]

HK_Allowed_HKLs ==
    /\ hk.op = "none"
    /\ LET Apply(hkllist) ==
               hk' = [hk EXCEPT !.op = "Allowed_HKLs", !.ip = 0, !.in = hkllist,
                                !.out = Allowed_HKLs(hkllist, hk.xtal.sg)]
       IN  Apply(BoxOf(hk.xtal, hk.dmin))
    /\ UNCHANGED << ModelVars, ph, sp, pd, pv >>

HK_omitglideplaneabsences ==
    /\ hk.op = "none"
    /\ \E ip \in 0..2 :
          /\ hk.xtal.sg.planes[ip + 1] # ""
          /\ LET Apply(hkllist) ==
                     hk' = [hk EXCEPT !.op = "omitglideplaneabsences", !.ip = ip,
                                      !.in = hkllist,
                                      !.out = omitglideplaneabsences(hkllist,
                                                  hk.xtal.sg.planes[ip + 1], ip,
                                                  hk.xtal.sg.latticeType)]
             IN  Apply(BoxOf(hk.xtal, hk.dmin))
    /\ UNCHANGED << ModelVars, ph, sp, pd, pv >>

HK_omitscrewaxisabsences ==
    /\ hk.op = "none"
    /\ \E iax \in 0..2 :
          /\ hk.xtal.sg.axes[iax + 1] # ""
          /\ LET Apply(hkllist) ==
                     hk' = [hk EXCEPT !.op = "omitscrewaxisabsences", !.ip = iax,
                                      !.in = hkllist,
                                      !.out = omitscrewaxisabsences(hkllist,
                                                  hk.xtal.sg.axes[iax + 1], iax,
                                                  hk.xtal.sg.latticeType)]
             IN  Apply(BoxOf(hk.xtal, hk.dmin))
    /\ UNCHANGED << ModelVars, ph, sp, pd, pv >>

\* ChooseSymmetric as getHKLs calls it: reached only when Allowed_HKLs returned
HK_ChooseSymmetric ==
    /\ hk.op = "none"
    /\ LET Apply(hkllist) ==
               hk' = [hk EXCEPT !.op = "ChooseSymmetric", !.ip = 0, !.in = hkllist,
                                !.out = ChooseSymmetric(hkllist, SymOf(hk.xtal))]
           Allowed(hkl_allowed) ==
               /\ hkl_allowed.err = ""
               /\ Apply(hkl_dsp(hkl_allowed.hkls, _calcrmt(hk.xtal.lparms), hk.dmin))
       IN  Allowed(Allowed_HKLs(BoxOf(hk.xtal, hk.dmin), hk.xtal.sg))
    /\ UNCHANGED << ModelVars, ph, sp, pd, pv >>

HK_Material_LeBail ==
    /\ hk.op = "none"
    /\ LET Apply(m) ==
               hk' = [hk EXCEPT !.op = "Material_LeBail", !.ip = 0,
                                !.in = BoxOf(hk.xtal, hk.dmin),
                                !.out = [err |-> m.err, hkls |-> m.hkls]]
       IN  Apply(Material_LeBail(hk.xtal, hk.dmin))
    /\ UNCHANGED << ModelVars, ph, sp, pd, pv >>

NextHKL ==
    \/ HK_Allowed_HKLs
    \/ HK_omitglideplaneabsences
    \/ HK_omitscrewaxisabsences
    \/ HK_ChooseSymmetric
    \/ HK_Material_LeBail

SpecHKL == InitHKL /\ [][NextHKL]_vars

-----------------------------------------------------------------------------
(* The refinement models: construction *)

Variants == {"LeBail", "LeBail_Asym", "LeBail_FPA", "Rietveld", "Rietveld_Asym"}

IsRietveld(v) == v \in {"Rietveld", "Rietveld_Asym"}

MaxNfev == 2        \* residual evaluations the solver makes in one solve

MaxCycles == 2      \* refinement cycles started on one model

MaxVary == 2        \* parameters the user lets vary at the same time

MaxSet == 3         \* changes of a vary flag the user makes on one model

\* the phase of the model ("ph" in parameter names): CeO2-like cubic F, or a
\* tetragonal P cell, both symmorphic, with one atom "Ce1"
ModelXtals ==
    { x \in Xtals : /\ x.sg.symmorphic /\ x.dmin = 5
                    /\ \/ x.sg.latticeType = "cubic" /\ x.sg.centering = "F"
                       \/ x.sg.latticeType = "tetragonal" /\ x.sg.centering = "P" }

\* the wavelength of the phases, in the length unit of the model
Wavelength == 4

\* _rqpDict[latticeType][0] (1-based) and _lpname
RqpIndex(latticeType) ==
    CASE latticeType = "triclinic" -> <<1, 2, 3, 4, 5, 6>>
      [] latticeType = "monoclinic" -> <<1, 2, 3, 5>>
      [] latticeType = "orthorhombic" -> <<1, 2, 3>>
      [] latticeType \in {"tetragonal", "trigonal", "hexagonal"} -> <<1, 3>>
      [] latticeType = "cubic" -> <<1>>

_lpname == <<"a", "b", "c", "alpha", "beta", "gamma">>

\* Required_lp(p) = _rqpDict[latticeType][1](p); a list p that is too short
\* makes the lambda raise IndexError
Required_lp(latticeType, p) ==
    IF Len(p) < Len(RqpIndex(latticeType))
    THEN [err |-> "IndexError", lp |-> << >>]
    ELSE [err |-> "",
          lp |-> CASE latticeType = "triclinic" -> p
                   [] latticeType = "monoclinic" -> <<p[1], p[2], p[3], 90, p[4], 90>>
                   [] latticeType = "orthorhombic" -> <<p[1], p[2], p[3], 90, 90, 90>>
                   [] latticeType = "tetragonal" -> <<p[1], p[1], p[2], 90, 90, 90>>
                   [] latticeType \in {"trigonal", "hexagonal"} -> <<p[1], p[1], p[2], 90, 90, 120>>
                   [] latticeType = "cubic" -> <<p[1], p[1], p[1], 90, 90, 90>>]

\* the names the parameter file gives, in file order (Parameters.load); one
\* width coefficient stands for the coefficients of the profile
FileParams(v) ==
    CASE v = "LeBail" -> <<"U", "zero_error">>
      [] v = "LeBail_Asym" -> <<"Ul", "zero_error">>
      [] v = "LeBail_FPA" -> <<"gauss_width", "lor_width", "crystallite_size", "zero_error">>
      [] v = "Rietveld" -> <<"scale", "U", "zero_error">>
      [] v = "Rietveld_Asym" -> <<"scale", "Ul", "zero_error">>

\* Parameters.add(name, value, lb, ub, vary)
Parameter(name, value, lb, ub, vary) ==
    [name |-> name, value |-> value, lb |-> lb, ub |-> ub, vary |-> vary]

\* the value below which initialize_parameters takes a lattice parameter for
\* small (10.) and the half-widths of the bounds it gives (0.05 and 1.), in
\* the length unit of the model (the phases of the model have no free angle)
LpSmall == 200

LpTolSmall == 1

LpTolLarge == 20

\* initialize_parameters(param_file): the file's parameters (value 0, bounds
\* [0, 1], not varying), then the lattice parameters of the phase, then, for
\* the Rietveld variants, the x coordinate of its atom
initialize_parameters(v, x) ==
    LET file == [i \in 1..Len(FileParams(v)) |-> Parameter(FileParams(v)[i], 0, 0, 1, FALSE)]
        rid == RqpIndex(x.sg.latticeType)
        lat == [i \in 1..Len(rid) |->
                   LET l == x.lparms[rid[i]]
                   IN  IF l < LpSmall
                       THEN Parameter("ph_" \o _lpname[rid[i]], l, l - LpTolSmall, l + LpTolSmall, FALSE)
                       ELSE Parameter("ph_" \o _lpname[rid[i]], l, l - LpTolLarge, l + LpTolLarge, FALSE)]
        atoms == IF IsRietveld(v) THEN << Parameter("ph_Ce1_x", 0, 0, 1, FALSE) >> ELSE << >>
    IN  file \o lat \o atoms

\* Parameters.__getitem__ / __contains__ on a sequence of named records
Has(ps, name) == \E i \in 1..Len(ps) : ps[i].name = name

Get(ps, name) == ps[CHOOSE i \in 1..Len(ps) : ps[i].name = name]

\* the attributes a model class defines a property setter for
Settable(v) ==
    CASE v = "LeBail" -> {"U", "zero_error"}
      [] v = "LeBail_Asym" -> {"Ul", "zero_error"}
      [] v = "LeBail_FPA" -> {"zero_error"}
      [] v = "Rietveld" -> {"scale", "U", "zero_error"}
      [] v = "Rietveld_Asym" -> {"scale", "Ul", "zero_error"}

\* self._U = self.params['U'].value, ... at the end of initialize_parameters
InitAttrs(v, ps) == [n \in Settable(v) |-> Get(ps, n).value]

\* LeBail_FPA: the private copies initialize_parameters makes; _lor_width is
\* read from 'gauss_width'
InitFP(v, ps) ==
    IF v = "LeBail_FPA"
    THEN [gauss_width |-> Get(ps, "gauss_width").value,
          lor_width |-> Get(ps, "gauss_width").value,
          crystallite_size |-> Get(ps, "crystallite_size").value]
    ELSE << >>

\* initialize_phases: the Material of the phase; the Rietveld material also
\* carries atom_pos (here the x coordinate of the one atom).  The tetragonal
\* phase of the Rietveld variants has anisotropic thermal factors (aniU):
\* its constructor calls _calcrmt, which leaves aij, and then calcBetaij,
\* which computes betaij from U and aij.  aij and betaij are kept as the
\* lattice parameters they were computed from.
InitMat(v, x) ==
    LET ani == IsRietveld(v) /\ x.sg.latticeType = "tetragonal"
        Phase(m) == [lparms |-> m.lparms, dmt |-> m.dmt, dmin |-> m.dmin, sg |-> m.sg,
                     hkls |-> m.hkls, atom_pos |-> 0, aniU |-> ani,
                     aij |-> m.lparms, betaij |-> IF ani THEN m.lparms ELSE << >>]
    IN  Phase(Material_LeBail(x, x.dmin))

\* calctth: the positions getTTh gives (the measured range holds them all)
calctth(m) == getTTh(m.hkls, m.dmt, Wavelength)

\* calcsf: the structure factors are a function of the metric tensor, the
\* reflection list and the atom positions; kept as the values they were
\* computed from
calcsf(m) ==
    [lparms |-> m.lparms, hkls |-> m.hkls, atom_pos |-> m.atom_pos, betaij |-> m.betaij]

\* computespectrum: the spectrum is a function of the zero shift, the shape
\* attributes, the peak positions and the intensities (Icalc or sf); kept as
\* the values it was computed from
computespectrum(v, a, fp, t, ic, f) ==
    [attrs |-> a, FP |-> fp, tth |-> t, I |-> IF IsRietveld(v) THEN f ELSE << ic >>]

-----------------------------------------------------------------------------
(* The refinement models: residual evaluation and refinement cycle *)

\* a variant of initialize_lmfit_parameters that forgets the vary test
initialize_lmfit_parameters_all(ps) ==
    [i \in 1..Len(ps) |->
        [name |-> ps[i].name, value |-> ps[i].value, min |-> ps[i].lb, max |-> ps[i].ub]]

\* initialize_lmfit_parameters: params.add(p, value, min=lb, max=ub) for
\* every parameter with vary set, in the order of self.params
initialize_lmfit_parameters(ps) ==
    LET sel == SelectSeq(ps, LAMBDA q : q.vary)
    IN  [i \in 1..Len(sel) |->
            [name |-> sel[i].name, value |-> sel[i].value,
             min |-> sel[i].lb, max |-> sel[i].ub]]

\* the points the solver may ask the residual at: every exposed parameter
\* within [min, max]
TrialPoints(l) ==
    LET range(i) == (l[i].min)..(l[i].max)
        all == UNION { range(i) : i \in 1..Len(l) }
    IN  { [i \in 1..Len(l) |-> [name |-> l[i].name, value |-> f[i]]] :
              f \in { g \in [1..Len(l) -> all] : \A i \in 1..Len(l) : g[i] \in range(i) } }

\* the lattice part of calcRwp: lp collects the exposed lattice parameters in
\* the order a, b, c, alpha, beta, gamma
TrialLp(t) ==
    LET names == [i \in 1..6 |-> "ph_" \o _lpname[i]]
        idx == SelectSeq([i \in 1..6 |-> i], LAMBDA i : Has(t, names[i]))
    IN  [i \in 1..Len(idx) |-> Get(t, names[idx[i]]).value]

\* the loop "for p in params: if hasattr(self, p): setattr(self, p, value)"
SetAttrs(a, t) == [n \in DOMAIN a |-> IF Has(t, n) THEN Get(t, n).value ELSE a[n]]

\* Rwp and gofF as calcRwp leaves them: functions of the spectrum just
\* computed, gofF also of the number of exposed parameters
Residual(sim, t) == [Rwp |-> sim, gofF |-> [sim |-> sim, P |-> Len(t)]]

\* what a residual evaluation leaves when it raises: the attributes set so far
Raise(st, e) == [st EXCEPT !.err = e]

\* LeBail.calcRwp / LeBail_Asym.calcRwp on the model state st with the trial
\* point t; LeBail calls calctth every time, LeBail_Asym after a lattice change
calcRwp_LeBail(v, st, t) ==
    LET a == SetAttrs(st.attrs, t)
        lp == TrialLp(t)
        rq == Required_lp(st.mat.sg.latticeType, lp)
        m == IF lp = << >> THEN st.mat
             ELSE [st.mat EXCEPT !.lparms = rq.lp, !.dmt = _calcrmt(rq.lp)]
        tt == IF v = "LeBail" \/ lp # << >> THEN calctth(m) ELSE st.tth
        sim == computespectrum(v, a, st.FP, tt, st.Icalc, st.sf)
    IN  IF lp # << >> /\ rq.err # ""
        THEN Raise([st EXCEPT !.attrs = a], rq.err)
        ELSE [st EXCEPT !.attrs = a, !.mat = m, !.tth = tt,
                        !.spectrum_sim = sim, !.Rwp = Residual(sim, t)]

\* LeBail_FPA.calcRwp: zero_error and the emission parameters are read from
\* self.params (ps), the lattice parameters from the trial point
calcRwp_FPA(v, st, ps, t) ==
    LET a == IF Get(ps, "zero_error").vary
             THEN [st.attrs EXCEPT !["zero_error"] = Get(ps, "zero_error").value]
             ELSE st.attrs
        fp == IF \/ Get(ps, "gauss_width").vary
                 \/ Get(ps, "lor_width").vary
                 \/ Get(ps, "crystallite_size").vary
              THEN [gauss_width |-> Get(ps, "gauss_width").value,
                    lor_width |-> Get(ps, "lor_width").value,
                    crystallite_size |-> Get(ps, "crystallite_size").value]
              ELSE st.FP
        lp == TrialLp(t)
        rq == Required_lp(st.mat.sg.latticeType, lp)
        m == IF lp = << >> THEN st.mat
             ELSE [st.mat EXCEPT !.lparms = rq.lp, !.dmt = _calcrmt(rq.lp)]
        tt == IF lp = << >> THEN st.tth ELSE calctth(m)
        sim == computespectrum(v, a, fp, tt, st.Icalc, st.sf)
    IN  IF lp # << >> /\ rq.err # ""
        THEN Raise([st EXCEPT !.attrs = a, !.FP = fp], rq.err)
        ELSE [st EXCEPT !.attrs = a, !.FP = fp, !.mat = m, !.tth = tt,
                        !.spectrum_sim = sim, !.Rwp = Residual(sim, t)]

\* Rietveld.calcRwp / Rietveld_Asym.calcRwp: an atom parameter that is not
\* exposed is read from self.params (ps)
calcRwp_Rietveld(v, st, ps, t) ==
    LET a == SetAttrs(st.attrs, t)
        lp == TrialLp(t)
        updated_lp == lp # << >>
        rq == Required_lp(st.mat.sg.latticeType, lp)
        updated_atominfo == Has(t, "ph_Ce1_x")
        x == IF Has(t, "ph_Ce1_x") THEN Get(t, "ph_Ce1_x").value
             ELSE Get(ps, "ph_Ce1_x").value
        \* mat.calcBetaij() (line 4940) reads the aij that the last _calcrmt
        \* left; mat._calcrmt() (line 4942) follows it
        calcBetaij(m0) == IF m0.aniU THEN [m0 EXCEPT !.betaij = m0.aij] ELSE m0
        m == IF updated_lp
             THEN [calcBetaij([st.mat EXCEPT !.lparms = rq.lp, !.atom_pos = x])
                      EXCEPT !.dmt = _calcrmt(rq.lp), !.aij = rq.lp]
             ELSE calcBetaij([st.mat EXCEPT !.atom_pos = x])
        tt == IF updated_lp THEN calctth(m) ELSE st.tth
        f == IF updated_lp \/ updated_atominfo THEN calcsf(m) ELSE st.sf
        sim == computespectrum(v, a, st.FP, tt, st.Icalc, f)
    IN  IF updated_lp /\ rq.err # ""
        THEN Raise([st EXCEPT !.attrs = a], rq.err)
        ELSE [st EXCEPT !.attrs = a, !.mat = m, !.tth = tt, !.sf = f,
                        !.spectrum_sim = sim, !.Rwp = Residual(sim, t)]

\* calcRwp(params) of the model's class
calcRwp(v, st, ps, t) ==
    CASE v \in {"LeBail", "LeBail_Asym"} -> calcRwp_LeBail(v, st, t)
      [] v = "LeBail_FPA" -> calcRwp_FPA(v, st, ps, t)
      [] IsRietveld(v) -> calcRwp_Rietveld(v, st, ps, t)

\* a variant of update_parameters that copies only after a converged solve
update_parameters_converged(ps, r) ==
    [i \in 1..Len(ps) |->
        IF r.success /\ Has(r.params, ps[i].name)
        THEN [ps[i] EXCEPT !.value = Get(r.params, ps[i].name).value]
        ELSE ps[i]]

\* a variant of update_parameters that copies by position instead of by name
update_parameters_positional(ps, r) ==
    [i \in 1..Len(ps) |->
        IF i <= Len(r.params) THEN [ps[i] EXCEPT !.value = r.params[i].value] ELSE ps[i]]

\* update_parameters: self.params[p].value = self.res.params[p].value
update_parameters(ps, r) ==
    [i \in 1..Len(ps) |->
        IF Has(r.params, ps[i].name)
        THEN [ps[i] EXCEPT !.value = Get(r.params, ps[i].name).value]
        ELSE ps[i]]

\* a variant of the end of the cycle that forgets the gofF history
CycleEnd_noGofF(n, rl, gl, R) ==
    [niter |-> n + 1, Rwplist |-> Append(rl, R.Rwp), gofFlist |-> gl]

\* the end of RefineCycle / Refine: niter += 1 and the two np.append
CycleEnd(n, rl, gl, R) ==
    [niter |-> n + 1, Rwplist |-> Append(rl, R.Rwp), gofFlist |-> Append(gl, R.gofF)]

-----------------------------------------------------------------------------
(* The refinement models: the state machine *)

NVary(ps) == Cardinality({i \in 1..Len(ps) : ps[i].vary})

\* the model object after __init__ on phase x
Init ==
    /\ hk = [op |-> "none"]
    /\ NoSpectrum /\ NoParameters /\ NoProfile /\ NoPhases
    /\ variant \in Variants
    /\ \E x \in ModelXtals :
          LET Computed(a, fp, t, f) ==
                  /\ attrs = a
                  /\ FP = fp
                  /\ tth = t
                  /\ Icalc = 0
                  /\ sf = f
                  /\ spectrum_sim = computespectrum(variant, a, fp, t, 0, f)
              Built(ps, m) ==
                  /\ params = ps
                  /\ mat = m
                  /\ Computed(InitAttrs(variant, ps), InitFP(variant, ps), calctth(m),
                              IF IsRietveld(variant) THEN calcsf(m) ELSE << >>)
          IN  Built(initialize_parameters(variant, x), InitMat(variant, x))
    /\ Rwp = << >>
    /\ niter = 0
    /\ Rwplist = << >>
    /\ gofFlist = << >>
    /\ res = << >>
    /\ pc = "idle"
    /\ lm = << >>
    /\ nfev = 0
    /\ trial = << >>
    /\ best = << >>
    /\ raised = FALSE
    /\ nset = 0

\* the user sets params[name].vary between cycles
SetVary ==
    /\ pc = "idle"
    /\ nset < MaxSet
    /\ nset' = nset + 1
    /\ \E i \in 1..Len(params), b \in BOOLEAN :
          /\ params[i].vary # b
          /\ params' = [params EXCEPT ![i].vary = b]
          /\ NVary(params') <= MaxVary
    /\ UNCHANGED << variant, attrs, FP, mat, tth, Icalc, sf, spectrum_sim, Rwp, niter,
                    Rwplist, gofFlist, res, pc, lm, nfev, trial, best, raised, hk, sp, pd, pv, ph >>

\* RefineCycle of a LeBail variant without the intensity update
CalcIobs_skipped(v, ic) == ic

\* self.CalcIobs(); self.Icalc = self.Iobs at the head of RefineCycle in the
\* LeBail variants: a new set of intensities takes the place of Icalc.  The
\* Rietveld variants have no Icalc.
CalcIobs(v, ic) == IF IsRietveld(v) THEN ic ELSE ic + 1

\* RefineCycle (LeBail variants) / Refine (Rietveld variants) up to the call of
\* least_squares: the LeBail variants first replace Icalc by the observed
\* intensities of CalcIobs (Icalc counts the replacements); the solve starts
\* from the values of the exposed parameters
RefineCycle ==
    /\ pc = "idle"
    /\ niter < MaxCycles
    /\ IsRietveld(variant) \/ Icalc < MaxCycles
    /\ NVary(params) > 0
    /\ Icalc' = CalcIobs(variant, Icalc)
    /\ lm' = initialize_lmfit_parameters(params)
    /\ best' = [i \in 1..Len(lm') |-> [name |-> lm'[i].name, value |-> lm'[i].value]]
    /\ trial' = << >>
    /\ nfev' = 0
    /\ raised' = FALSE
    /\ pc' = "solving"
    /\ UNCHANGED << variant, params, attrs, FP, mat, tth, sf, spectrum_sim, Rwp, niter,
                    Rwplist, gofFlist, res, nset, hk, sp, pd, pv, ph >>

\* least_squares calls the residual: first at the start values, then at any
\* point within the bounds; it keeps the new point or its best one.  A
\* residual that raises ends the cycle with the exception.
SolverEval ==
    /\ pc = "solving"
    /\ nfev < MaxNfev
    /\ \E t \in TrialPoints(lm) :
          /\ nfev = 0 => t = best
          /\ LET st == [attrs |-> attrs, FP |-> FP, mat |-> mat, tth |-> tth,
                        Icalc |-> Icalc, sf |-> sf, spectrum_sim |-> spectrum_sim,
                        Rwp |-> Rwp, err |-> ""]
                 Left(r) ==
                     /\ attrs' = r.attrs
                     /\ FP' = r.FP
                     /\ mat' = r.mat
                     /\ tth' = r.tth
                     /\ sf' = r.sf
                     /\ spectrum_sim' = r.spectrum_sim
                     /\ Rwp' = r.Rwp
                     /\ raised' = (r.err # "")
                     /\ pc' = IF r.err # "" THEN "idle" ELSE "solving"
                     /\ nfev' = nfev + 1
                     /\ trial' = t
                     /\ \/ best' = best
                        \/ r.err = "" /\ best' = t
             IN  Left(calcRwp(variant, st, params, t))
    /\ UNCHANGED << variant, params, Icalc, niter, Rwplist, gofFlist, res, lm, nset, hk, sp, pd, pv, ph >>

\* least_squares returns its best point, converged (success) or not; the rest
\* of RefineCycle / Refine: self.res, update_parameters, niter, the histories
SolverReturn ==
    /\ pc = "solving"
    /\ nfev > 0
    /\ \E success \in BOOLEAN :
          /\ res' = [params |-> best, success |-> success]
          /\ params' = update_parameters(params, res')
          /\ LET e == CycleEnd(niter, Rwplist, gofFlist, Rwp)
             IN  /\ niter' = e.niter
                 /\ Rwplist' = e.Rwplist
                 /\ gofFlist' = e.gofFlist
    /\ pc' = "idle"
    /\ UNCHANGED << variant, attrs, FP, mat, tth, Icalc, sf, spectrum_sim, Rwp,
                    lm, nfev, trial, best, raised, nset, hk, sp, pd, pv, ph >>

Next ==
    \/ SetVary
    \/ RefineCycle
    \/ SolverEval
    \/ SolverReturn

Spec == Init /\ [][Next]_vars

-----------------------------------------------------------------------------
(* Properties of the refinement models *)

\* a step in which RefineCycle / Refine returns normally
CycleReturns == pc = "solving" /\ pc' = "idle" /\ ~raised'

\* C1: in every variant the solver is handed exactly the parameters whose
\* vary flag is set, in insertion order, each with its current value as start
\* value and lb/ub as bounds; no parameter with vary = false is exposed.
C1_ExposedAreVarying ==
    pc = "solving" =>
        /\ Len(lm) = Cardinality({j \in 1..Len(params) : params[j].vary})
        /\ \A i \in 1..Len(lm) :
              \E j \in 1..Len(params) :
                  /\ params[j].name = lm[i].name
                  /\ params[j].vary
                  /\ lm[i].value = params[j].value
                  /\ lm[i].min = params[j].lb
                  /\ lm[i].max = params[j].ub
                  /\ \A i2 \in (i + 1)..Len(lm) :
                        \E j2 \in (j + 1)..Len(params) : params[j2].name = lm[i2].name

C1_Witness ==
    /\ pc = "solving"
    /\ variant = "Rietveld_Asym"
    /\ Len(lm) = 2
    /\ lm[1].name = "zero_error" /\ lm[1].value = 1
    /\ lm[2].name = "ph_a"
    /\ \E j \in 1..Len(params) : ~params[j].vary

\* the lattice parameters a trial point stands for
TrialLattice(t) == Required_lp(mat.sg.latticeType, TrialLp(t)).lp

\* the spectrum sim was computed from the values the point t gives its parameters
ComputedFrom(sim, t) ==
    /\ \A i \in 1..Len(t) :
          /\ t[i].name \in DOMAIN sim.attrs => sim.attrs[t[i].name] = t[i].value
          /\ t[i].name \in {"gauss_width", "lor_width", "crystallite_size"}
                => sim.FP[t[i].name] = t[i].value
          /\ t[i].name = "ph_Ce1_x" => sim.I.atom_pos = t[i].value
    /\ TrialLp(t) # << >> =>
          sim.tth = getTTh(mat.hkls, _calcrmt(TrialLattice(t)), Wavelength)

\* C2: in every variant each residual evaluation computes the simulated
\* spectrum from the trial values of every varying parameter, never from the
\* value stored in the ParameterSet (LeBail_FPA's zero_error, gauss_width,
\* lor_width and crystallite_size included).
C2_TrialValuesUsed == (pc = "solving" /\ nfev > 0) => ComputedFrom(spectrum_sim, trial)

\* the same for the variants other than LeBail_FPA
C2_TrialValuesUsed_NotFPA == variant # "LeBail_FPA" => C2_TrialValuesUsed

\* C3: when a cycle returns, every exposed parameter holds the value the
\* solver returned, every parameter with vary = false keeps the value it had
\* before the cycle, and no parameter is added or removed and no lb, ub or
\* vary flag changes.
C3_CycleFrame ==
    [][ /\ pc' = "solving" => params' = params
        /\ CycleReturns =>
              /\ Len(params') = Len(params)
              /\ \A i \in 1..Len(params) :
                    /\ params'[i].name = params[i].name
                    /\ params'[i].lb = params[i].lb
                    /\ params'[i].ub = params[i].ub
                    /\ params'[i].vary = params[i].vary
                    /\ Has(lm, params[i].name) =>
                          /\ Has(res'.params, params[i].name)
                          /\ params'[i].value = Get(res'.params, params[i].name).value
                    /\ ~params[i].vary => params'[i].value = params[i].value ]_vars

C3_Witness ==
    /\ pc = "idle" /\ niter = 1 /\ ~raised
    /\ \E i, j \in 1..Len(params) :
          /\ params[i].vary /\ params[i].name = "ph_a" /\ params[i].value = 11
          /\ ~params[j].vary /\ params[j].name = "zero_error" /\ params[j].value = 0
    /\ Len(res.params) = 2

\* C4: after construction niter is 0 and both histories are empty; every
\* completed cycle adds 1 to niter and one value to each history, nothing
\* else changes them, so len(Rwplist) = len(gofFlist) = niter in every state.
C4_HistoryLengths ==
    /\ niter = 0 /\ Rwplist = << >> /\ gofFlist = << >>
    /\ [](Len(Rwplist) = niter /\ Len(gofFlist) = niter)
    /\ [][ IF CycleReturns
           THEN /\ niter' = niter + 1
                /\ Len(Rwplist') = Len(Rwplist) + 1
                /\ Len(gofFlist') = Len(gofFlist) + 1
           ELSE UNCHANGED << niter, Rwplist, gofFlist >> ]_vars

C4_Witness == pc = "idle" /\ niter = 2 /\ Len(Rwplist) = 2 /\ Len(gofFlist) = 2

\* C5: the Rwp and gofF appended at the end of a cycle are those of the
\* spectrum for the values the solver returned (the values copied into the
\* ParameterSet), also when the solver's last evaluation was at another point.
\* Stated for the variants whose residual applies the trial values (see C2).
C5_HistoryOfReturned ==
    (variant # "LeBail_FPA" /\ niter > 0) =>
        /\ ComputedFrom(Rwplist[niter], res.params)
        /\ ComputedFrom(gofFlist[niter].sim, res.params)

\* C6 (as the code has it): a cycle whose solver reports non-convergence
\* completes like a converged one: the returned values are copied, niter is
\* incremented, Rwp and gofF are appended, no error is raised, the model is
\* idle again and accepts another cycle, and no state variable other than the
\* stored solver result res records the difference.
C6_NonConvergedCompletes ==
    [][ CycleReturns =>
          /\ res'.params = best
          /\ \A i \in 1..Len(params) :
                params'[i].value = IF Has(best, params[i].name)
                                   THEN Get(best, params[i].name).value
                                   ELSE params[i].value
          /\ niter' = niter + 1
          /\ Rwplist' = Append(Rwplist, Rwp.Rwp)
          /\ gofFlist' = Append(gofFlist, Rwp.gofF)
          /\ UNCHANGED << variant, attrs, FP, mat, tth, Icalc, sf, spectrum_sim, Rwp >> ]_vars

\* a second cycle is running on a model whose first cycle did not converge
C6_Witness == pc = "solving" /\ niter = 1 /\ ~res.success /\ nfev > 0

\* C6 as stated: no state variable records the difference, that is, the state
\* a cycle leaves is the state a converged cycle leaves.
C6_NothingRecordsConvergence ==
    [][ CycleReturns => res' = [params |-> best, success |-> TRUE] ]_vars

\* C7: in every reachable state of a model the reflection list of the phase
\* does not contain (0,0,0) and every listed reflection has a d-spacing >= dmin
\* under the current metric tensor.
C7_ReflectionsResolved ==
    \A i \in 1..Len(mat.hkls) :
        /\ mat.hkls[i] # << 0, 0, 0 >>
        /\ DspAtLeast(mat.hkls[i], mat.dmt, mat.dmin)

-----------------------------------------------------------------------------
(* Reflection generation: properties *)

Divides(m, x) == \E q \in -50..50 : x = m * q

\* the centering conditions of the International Tables
CenteringRule(centering, g) ==
    CASE centering = "P" -> TRUE
      [] centering = "F" -> Divides(2, g[1] - g[2]) /\ Divides(2, g[2] - g[3])
      [] centering = "I" -> Divides(2, g[1] + g[2] + g[3])
      [] centering = "A" -> Divides(2, g[2] + g[3])
      [] centering = "B" -> Divides(2, g[1] + g[3])
      [] centering = "C" -> Divides(2, g[1] + g[2])
      [] centering = "R" -> Divides(3, g[2] + g[3] - g[1])
      [] OTHER -> FALSE

AllowedReturned == hk.op = "Allowed_HKLs" /\ hk.out.err = ""

\* C8: every triple Allowed_HKLs keeps was given to it and satisfies the
\* centering condition of the phase (P always; F all indices of the same
\* parity; I h+k+l even; A k+l even; B h+l even; C h+k even; R -h+k+l
\* divisible by 3), for indices of either sign; for a symmorphic space group
\* it keeps every given triple that satisfies the condition.  With F centering
\* (1,0,0) is removed, and (1,1,1) is kept when the group is symmorphic.
C8_CenteringCondition ==
    AllowedReturned =>
        LET c == hk.xtal.sg.centering
            out == hk.out.hkls
        IN  /\ \A n \in 1..Len(out) : CenteringRule(c, out[n]) /\ InSeq(out[n], hk.in)
            /\ hk.xtal.sg.symmorphic =>
                  \A n \in 1..Len(hk.in) :
                      CenteringRule(c, hk.in[n]) => InSeq(hk.in[n], out)
            /\ c = "F" =>
                  /\ ~InSeq(<< 1, 0, 0 >>, out)
                  /\ hk.xtal.sg.symmorphic /\ InSeq(<< 1, 1, 1 >>, hk.in)
                        => InSeq(<< 1, 1, 1 >>, out)

\* a face-centred symmorphic phase: (1,1,1) and a triple with negative indices
\* are kept, (1,0,0) was given and is removed
C8_Witness ==
    /\ AllowedReturned
    /\ hk.xtal.sg.centering = "F" /\ hk.xtal.sg.symmorphic
    /\ InSeq(<< 1, 1, 1 >>, hk.out.hkls)
    /\ InSeq(<< -1, -1, 1 >>, hk.out.hkls)
    /\ InSeq(<< 1, 0, 0 >>, hk.in) /\ ~InSeq(<< 1, 0, 0 >>, hk.out.hkls)

\* C8 as stated: a triple is kept if and only if it satisfies the centering
\* condition, whatever the space group.
C8_KeptIffCentering ==
    AllowedReturned =>
        \A n \in 1..Len(hk.in) :
            InSeq(hk.in[n], hk.out.hkls) <=> CenteringRule(hk.xtal.sg.centering, hk.in[n])

\* the operators are closed under multiplication and contain the identity and
\* the inversion
IsGroup(sym) ==
    LET S == {sym[i] : i \in 1..Len(sym)}
    IN  /\ Ident3 \in S
        /\ Neg3(Ident3) \in S
        /\ \A a \in S : \A b \in S : MatMul(a, b) \in S

\* the symmetry orbit of g
Orbit(g, sym) == {Dot(sym[i], g) : i \in 1..Len(sym)}

ChooseReturned == hk.op = "ChooseSymmetric" /\ hk.out.err = ""

\* C9: when the point-group operators form a group containing the inversion,
\* ChooseSymmetric returns exactly one triple for each orbit that has a member
\* in the list it is given, every returned triple lies in the orbit of a given
\* one, no two returned triples are symmetry-equivalent, and each returned
\* triple has the largest h+k+l of its orbit and is the first member with that
\* sum in the CalcStar order of the first listed member of the orbit.
C9_OnePerOrbit ==
    (ChooseReturned /\ IsGroup(SymOf(hk.xtal))) =>
        LET sym == SymOf(hk.xtal)
            out == hk.out.hkls
            orb == [n \in 1..Len(out) |-> Orbit(out[n], sym)]
        IN  /\ \A i \in 1..Len(hk.in) :
                  Cardinality({n \in 1..Len(out) : hk.in[i] \in orb[n]}) = 1
            /\ \A n \in 1..Len(out) :
                  /\ \E i \in 1..Len(hk.in) : hk.in[i] \in orb[n]
                  /\ \A m \in 1..Len(out) : m # n => out[m] \notin orb[n]
                  /\ \A v \in orb[n] : SumV(v) <= SumV(out[n])
                  /\ LET first == CHOOSE i \in 1..Len(hk.in) :
                                     /\ hk.in[i] \in orb[n]
                                     /\ \A j \in 1..(i - 1) : hk.in[j] \notin orb[n]
                         star == CalcStar(hk.in[first], sym)
                     IN  \E j \in 1..Len(star) :
                            /\ star[j] = out[n]
                            /\ \A q \in 1..(j - 1) : SumV(star[q]) < SumV(out[n])

\* several orbits, several listed members of one orbit, an orbit in which two
\* members share the largest sum, and a returned triple that was not listed
C9_Witness ==
    /\ ChooseReturned /\ IsGroup(SymOf(hk.xtal))
    /\ Len(hk.out.hkls) >= 2
    /\ Len(hk.in) > Len(hk.out.hkls)
    /\ \E n \in 1..Len(hk.out.hkls) :
          \E v \in Orbit(hk.out.hkls[n], SymOf(hk.xtal)) :
              v # hk.out.hkls[n] /\ SumV(v) = SumV(hk.out.hkls[n])
    /\ \E n \in 1..Len(hk.out.hkls) : ~InSeq(hk.out.hkls[n], hk.in)

\* configurations for which the lattice system defines no rule
InvalidGlide(latticeType, plane, ip) ==
    \/ plane \notin {"a", "b", "c", "n", "d"}
    \/ latticeType = "triclinic"
    \/ latticeType = "monoclinic" /\ ip \in {0, 2}
    \/ latticeType = "cubic" /\ ip = 1

InvalidScrew(latticeType, ax, iax) ==
    \/ ax \notin {"2_1", "3_1", "3_2", "4_1", "4_2", "4_3", "6_1", "6_2", "6_3", "6_4", "6_5"}
    \/ latticeType = "triclinic"

\* C10: reflection filtering raises, and returns no list, for an unknown
\* centering symbol, for a glide-plane or screw-axis code the lattice system
\* does not define, and for a symmetry direction for which the lattice system
\* defines no rule (a glide plane on direction 0 or 2 of a monoclinic phase, on
\* direction 1 of a cubic phase).
C10_InvalidAlwaysRaises ==
    /\ hk.op = "Allowed_HKLs" /\ ~CenteringKnown(hk.xtal.sg.centering)
          => hk.out.err # ""
    /\ hk.op = "omitglideplaneabsences"
          /\ InvalidGlide(hk.xtal.sg.latticeType, hk.xtal.sg.planes[hk.ip + 1], hk.ip)
          => hk.out.err # ""
    /\ hk.op = "omitscrewaxisabsences"
          /\ InvalidScrew(hk.xtal.sg.latticeType, hk.xtal.sg.axes[hk.ip + 1], hk.ip)
          => hk.out.err # ""

\* no allowed reflection of the crystal has a d-spacing of at least dmin
NoneSurvives(x, dmin) ==
    \A n \in 1..Len(BoxOf(x, dmin)) :
        LET g == BoxOf(x, dmin)[n]
        IN  (g # << 0, 0, 0 >> /\ CenteringRule(x.sg.centering, g))
                => ~DspAtLeast(g, _calcrmt(x.lparms), dmin)

\* C11: when the resolution limit dmin exceeds every allowed d-spacing of a
\* phase, reflection generation finishes without error and returns an empty
\* reflection list (from which the simulated spectrum is the background).
C11_NoReflectionsNoError ==
    (/\ hk.op = "Material_LeBail"
     /\ hk.xtal.sg.symmorphic /\ CenteringKnown(hk.xtal.sg.centering)
     /\ NoneSurvives(hk.xtal, hk.dmin))
        => hk.out.err = "" /\ hk.out.hkls = << >>

(***************************************************************************)
(* The Spectrum class: a pair of x,y arrays with an offset, a scaling, a   *)
(* smoothing amount and a background.  Arrays are sequences of integers;   *)
(* an object refers to its background by the name of the other object.     *)
(***************************************************************************)

\* Spectrum.__init__: bkg_Spectrum is None; the attribute bkg_spectrum does
\* not exist until set_background creates it.
Spectrum(x, y) ==
    [x |-> x, y |-> y, offset |-> 0, _scaling |-> 1, smoothing |-> 0,
     bkg_Spectrum |-> "None", bkg_spectrum |-> "unset"]

\* set_background stores its argument in the attribute bkg_spectrum
set_background(self, other) == [self EXCEPT !.bkg_spectrum = other]

reset_background(self) == [self EXCEPT !.bkg_Spectrum = "None"]

set_smoothing(self, amount) == [self EXCEPT !.smoothing = amount]

\* the scaling setter replaces a negative value by 0
scaling_setter(self, value) ==
    [self EXCEPT !._scaling = IF value < 0 THEN 0 ELSE value]

original_data(self) ==
    [err |-> "", x |-> self.x,
     y |-> [n \in 1..Len(self.x) |-> self.y[n] * self._scaling + self.offset]]

\* scipy's interp1d(xs, ys, kind='linear') evaluated at a point x within
\* [xs[1], xs[Len(xs)]]; xs is increasing.  The grids and values of this
\* development make every interpolated value an integer.
interp1d(xs, ys, x) ==
    LET i == CHOOSE i \in 1..(Len(xs) - 1) : xs[i] <= x /\ x <= xs[i + 1]
    IN  ys[i] + ((ys[i + 1] - ys[i]) * (x - xs[i])) \div (xs[i + 1] - xs[i])

\* np.where((x <= np.max(other_x)) & (x >= np.min(other_x))): the indices of
\* x within the range of other_x
Overlap(x, other_x) ==
    SelectSeq([n \in 1..Len(x) |-> n],
              LAMBDA n : x[n] <= other_x[Len(other_x)] /\ x[n] >= other_x[1])

\* the data property.  heap maps the names of the objects to the objects.
\* The names BkgNotInRangeError and gaussian_filter1d are neither defined
\* nor imported in the module, so the statements using them raise NameError.
RECURSIVE data(_, _)
data(self, heap) ==
    LET Smoothed(d) == IF d.err = "" /\ self.smoothing > 0
                       THEN [err |-> "NameError", x |-> << >>, y |-> << >>]
                       ELSE d
        Sub(b) ==
            IF b.err # "" THEN b
            ELSE IF b.x # self.x
            THEN LET Cut(ind) ==
                        IF Len(ind) = 0
                        THEN [err |-> "NameError", x |-> << >>, y |-> << >>]
                        ELSE [err |-> "",
                              x |-> [n \in 1..Len(ind) |-> self.x[ind[n]]],
                              y |-> [n \in 1..Len(ind) |->
                                        self.y[ind[n]] * self._scaling + self.offset
                                            - interp1d(b.x, b.y, self.x[ind[n]])]]
                 IN  Cut(Overlap(self.x, b.x))
            ELSE [err |-> "", x |-> self.x,
                  y |-> [n \in 1..Len(self.x) |->
                            self.y[n] * self._scaling + self.offset - b.y[n]]]
    IN  IF self.bkg_Spectrum # "None"
        THEN Smoothed(Sub(data(heap[self.bkg_Spectrum], heap)))
        ELSE Smoothed(original_data(self))

\* __add__ (sign = 1) and __sub__ (sign = -1) on the data of the two
\* operands.  When the shapes differ the interpolant is built from other_x
\* and other_x, and is evaluated on the part of orig_x within other_x's
\* range; when they are equal the arrays are combined index by index.
AddSub(sign, orig, other) ==
    IF orig.err # "" THEN orig
    ELSE IF other.err # "" THEN other
    ELSE IF Len(orig.x) # Len(other.x)
    THEN LET Cut(ind) ==
                IF Len(ind) = 0
                THEN [err |-> "NameError", x |-> << >>, y |-> << >>]
                ELSE [err |-> "",
                      x |-> [n \in 1..Len(ind) |-> orig.x[ind[n]]],
                      y |-> [n \in 1..Len(ind) |->
                                orig.y[ind[n]]
                                    + sign * interp1d(other.x, other.x, orig.x[ind[n]])]]
         IN  Cut(Overlap(orig.x, other.x))
    ELSE [err |-> "", x |-> orig.x,
          y |-> [n \in 1..Len(orig.x) |-> orig.y[n] + sign * other.y[n]]]

__add__(self, other, heap) == AddSub(1, data(self, heap), data(other, heap))

__sub__(self, other, heap) == AddSub(-1, data(self, heap), data(other, heap))

\* ---- the spectra the specification draws from
SpectraA == { Spectrum(<< 2, 3, 4 >>, y) : y \in { << 10, 20, 30 >>, << 5, 5, 5 >> } }

SpectraB ==
    { Spectrum(<< 2, 3, 4 >>, << 2, 4, 6 >>),      \* A's grid
      Spectrum(<< 2, 3, 4 >>, << 1, 1, 1 >>),
      Spectrum(<< 3, 4, 5 >>, << 2, 4, 6 >>),      \* same length, shifted
      Spectrum(<< 6, 7, 8 >>, << 2, 4, 6 >>),      \* same length, no overlap
      Spectrum(<< 2, 4 >>, << 12, 16 >>),          \* other length, covers A
      Spectrum(<< 3, 5 >>, << 12, 16 >>),          \* other length, covers part of A
      Spectrum(<< 6, 8 >>, << 12, 16 >>),          \* other length, no overlap
      Spectrum(<< 1, 3, 5, 7 >>, << 8, 8, 8, 8 >>) }

ScalingVals == {-1, 0, 1, 2}

OffsetVals == {0, 3}

SmoothingVals == {0, 1}

InitSpectrum ==
    /\ NoModel /\ NoPhases /\ hk = [op |-> "none"] /\ NoParameters /\ NoProfile
    /\ \E a \in SpectraA, b \in SpectraB :
          sp = [op |-> "Spectrum", A |-> a, B |-> b, out |-> original_data(a)]

Heap == [A |-> sp.A, B |-> sp.B]

SP_set_background ==
    /\ sp' = [sp EXCEPT !.op = "set_background", !.A = set_background(sp.A, "B")]
    /\ UNCHANGED << ModelVars, ph, hk, pd, pv >>

SP_reset_background ==
    /\ sp' = [sp EXCEPT !.op = "reset_background", !.A = reset_background(sp.A)]
    /\ UNCHANGED << ModelVars, ph, hk, pd, pv >>

SP_set_smoothing ==
    /\ \E amount \in SmoothingVals :
          sp' = [sp EXCEPT !.op = "set_smoothing", !.A = set_smoothing(sp.A, amount)]
    /\ UNCHANGED << ModelVars, ph, hk, pd, pv >>

SP_scaling ==
    /\ \E value \in ScalingVals :
          sp' = [sp EXCEPT !.op = "scaling", !.A = scaling_setter(sp.A, value)]
    /\ UNCHANGED << ModelVars, ph, hk, pd, pv >>

\* offset is a plain attribute, assigned by the caller
SP_offset ==
    /\ \E value \in OffsetVals :
          sp' = [sp EXCEPT !.op = "offset", !.A.offset = value]
    /\ UNCHANGED << ModelVars, ph, hk, pd, pv >>

SP_data ==
    /\ sp' = [sp EXCEPT !.op = "data", !.out = data(sp.A, Heap)]
    /\ UNCHANGED << ModelVars, ph, hk, pd, pv >>

SP_add ==
    /\ sp' = [sp EXCEPT !.op = "__add__", !.out = __add__(sp.A, sp.B, Heap)]
    /\ UNCHANGED << ModelVars, ph, hk, pd, pv >>

SP_sub ==
    /\ sp' = [sp EXCEPT !.op = "__sub__", !.out = __sub__(sp.A, sp.B, Heap)]
    /\ UNCHANGED << ModelVars, ph, hk, pd, pv >>

NextSpectrum ==
    \/ SP_set_background
    \/ SP_reset_background
    \/ SP_set_smoothing
    \/ SP_scaling
    \/ SP_offset
    \/ SP_data
    \/ SP_add
    \/ SP_sub

SpecSpectrum == InitSpectrum /\ [][NextSpectrum]_vars

\* C12: a data read that directly follows set_background(B), with B on A's
\* grid and smoothing off, returns y*scaling + offset - B.y on A's x; a data
\* read that directly follows reset_background returns y*scaling + offset.
C12_BackgroundSubtracted ==
    [][ /\ (sp'.op = "data" /\ sp.op = "set_background"
               /\ sp.A.x = sp.B.x /\ sp.A.smoothing = 0)
            => sp'.out = [err |-> "", x |-> sp.A.x,
                          y |-> [n \in 1..Len(sp.A.x) |->
                                    sp.A.y[n] * sp.A._scaling + sp.A.offset
                                        - sp.B.y[n]]]
        /\ (sp'.op = "data" /\ sp.op = "reset_background" /\ sp.A.smoothing = 0)
            => sp'.out = original_data(sp.A) ]_vars


\* the x ranges of the two operands have no point in common
Disjoint(a, b) == a.x[Len(a.x)] < b.x[1] \/ b.x[Len(b.x)] < a.x[1]

\* the sign of the operation just performed
SignOf(op) == IF op = "__add__" THEN 1 ELSE -1

\* C13: A + B and A - B of two spectra whose x ranges do not overlap raise
\* an error and produce no Spectrum, also when A and B have the same number
\* of points.
C13_DisjointRaises ==
    (sp.op \in {"__add__", "__sub__"} /\ Disjoint(sp.A, sp.B))
        => sp.out.err # ""

\* C14: when the grids of A and B differ (and their ranges overlap), A + B
\* (A - B) has exactly the x values of A within [min(B.x), max(B.x)], and at
\* each of them A's y plus (minus) B's y linearly interpolated at that x.
C14_Interpolated ==
    (/\ sp.op \in {"__add__", "__sub__"}
     /\ sp.A.x # sp.B.x /\ ~Disjoint(sp.A, sp.B) /\ sp.A.smoothing = 0)
        => LET ind == Overlap(sp.A.x, sp.B.x)
               a == original_data(sp.A)
           IN  sp.out = [err |-> "",
                         x |-> [n \in 1..Len(ind) |-> sp.A.x[ind[n]]],
                         y |-> [n \in 1..Len(ind) |->
                                   a.y[ind[n]] + SignOf(sp.op)
                                       * interp1d(sp.B.x, sp.B.y, sp.A.x[ind[n]])]]

(***************************************************************************)
(* The Parameters class.  param_dict is a sequence of key/Parameter pairs  *)
(* in insertion order.  A Python object stored in a Parameter is a record  *)
(* [k, s, v]: a float (finite v, or s = "inf" / "-inf"), a bool, or a      *)
(* builtin function named s.                                               *)
(***************************************************************************)

Float(v) == [k |-> "float", s |-> "", v |-> v]

Inf == [k |-> "float", s |-> "inf", v |-> 0]

NegInf == [k |-> "float", s |-> "-inf", v |-> 0]

Bool(b) == [k |-> "bool", s |-> "", v |-> IF b THEN 1 ELSE 0]

Builtin(name) == [k |-> "builtin_function", s |-> name, v |-> 0]

\* isinstance(parm_cls, Parameter)
IsParameter(obj) == "name" \in DOMAIN obj

KeyIndex(d, key) == CHOOSE n \in 1..Len(d) : d[n].key = key

HasKey(d, key) == \E n \in 1..Len(d) : d[n].key = key

\* __setitem__ storing every assignment as a new entry
__setitem___append(d, key, parm_cls) ==
    IF IsParameter(parm_cls)
    THEN [err |-> "", warn |-> HasKey(d, key),
          d |-> Append(d, [key |-> key, p |-> parm_cls])]
    ELSE [err |-> "ValueError", warn |-> HasKey(d, key), d |-> d]

\* Parameters.__setitem__: warns when the key is present; stores a Parameter
\* under the key (a present key keeps its place in the dict), and raises
\* ValueError for anything else.
__setitem__(d, key, parm_cls) ==
    IF IsParameter(parm_cls)
    THEN [err |-> "", warn |-> HasKey(d, key),
          d |-> IF HasKey(d, key)
                THEN [d EXCEPT ![KeyIndex(d, key)] = [key |-> key, p |-> parm_cls]]
                ELSE Append(d, [key |-> key, p |-> parm_cls])]
    ELSE [err |-> "ValueError", warn |-> HasKey(d, key), d |-> d]

\* Parameters.add
add(d, name, vary, value, lb, ub) ==
    __setitem__(d, name, Parameter(name, value, lb, ub, vary))

\* Parameters.add_many: four assertions on the lengths, then one add per name
RECURSIVE add_many_from(_, _, _)
add_many_from(r, i, a) ==
    IF i > Len(a.names) THEN r
    ELSE LET Step(q) == [q EXCEPT !.warn = r.warn \/ q.warn]
         IN  add_many_from(Step(add(r.d, a.names[i], a.varies[i], a.values[i],
                                    a.lbs[i], a.ubs[i])), i + 1, a)

add_many(d, a) ==
    IF \/ Len(a.names) # Len(a.varies) \/ Len(a.names) # Len(a.values)
       \/ Len(a.names) # Len(a.lbs) \/ Len(a.names) # Len(a.ubs)
    THEN [err |-> "AssertionError", warn |-> FALSE, d |-> d]
    ELSE add_many_from([err |-> "", warn |-> FALSE, d |-> d], 1, a)

\* Parameters.__init__: with a name, add is called with the builtin
\* functions min and max as lb and ub
Parameters(name, vary, value) ==
    IF name = "None" THEN << >>
    ELSE add(<< >>, name, vary, value, Builtin("min"), Builtin("max")).d

\* yaml.dump of one object: the node the default Dumper writes for it
represent(obj) ==
    CASE obj.k = "float" ->
            [tag |-> "float", v |-> obj.v,
             text |-> IF obj.s = "inf" THEN ".inf"
                      ELSE IF obj.s = "-inf" THEN "-.inf" ELSE "number"]
      [] obj.k = "bool" ->
            [tag |-> "bool", v |-> 0, text |-> IF obj.v = 1 THEN "true" ELSE "false"]
      [] obj.k = "builtin_function" ->
            [tag |-> "python/name", v |-> 0, text |-> "builtins." \o obj.s]

\* yaml.load(Loader=yaml.FullLoader) of one node
construct(node) ==
    CASE node.tag = "float" ->
            IF node.text = ".inf" THEN Inf
            ELSE IF node.text = "-.inf" THEN NegInf ELSE Float(node.v)
      [] node.tag = "bool" -> Bool(node.text = "true")
      [] node.tag = "python/name" ->
            Builtin(SubSeq(node.text, Len("builtins.") + 1, Len(node.text)))

\* np.float(obj) = float(obj): a float of a float or of a bool, TypeError of
\* a function
np_float(obj) ==
    CASE obj.k = "float" -> [err |-> "", obj |-> obj]
      [] obj.k = "bool" -> [err |-> "", obj |-> Float(obj.v)]
      [] obj.k = "builtin_function" -> [err |-> "TypeError", obj |-> obj]

\* np.bool(obj) = bool(obj)
np_bool(obj) ==
    CASE obj.k = "float" -> obj.s # "" \/ obj.v # 0
      [] obj.k = "bool" -> obj.v = 1
      [] obj.k = "builtin_function" -> TRUE

\* Parameters.dump: one list [value, lb, ub, vary] per key, keys in dict order
dump(d) ==
    [n \in 1..Len(d) |->
        [key |-> d[n].key,
         v |-> << represent(d[n].p.value), represent(d[n].p.lb),
                  represent(d[n].p.ub), represent(Bool(d[n].p.vary)) >>]]

\* the arguments load passes to add for one entry of the file
LoadArgs(v) ==
    [value |-> np_float(construct(v[1])), lb |-> np_float(construct(v[2])),
     ub |-> np_float(construct(v[3])), vary |-> np_bool(construct(v[4]))]

\* Parameters.load: one add per key of the file, in the file's order; an
\* exception ends the loop
RECURSIVE load_from(_, _, _)
load_from(r, i, dic) ==
    IF i > Len(dic) \/ r.err # "" THEN r
    ELSE LET Args(a) ==
                IF a.value.err # "" \/ a.lb.err # "" \/ a.ub.err # ""
                THEN [r EXCEPT !.err = "TypeError"]
                ELSE add(r.d, dic[i].key, a.vary, a.value.obj, a.lb.obj, a.ub.obj)
         IN  load_from(Args(LoadArgs(dic[i].v)), i + 1, dic)

load(d, dic) == load_from([err |-> "", warn |-> FALSE, d |-> d], 1, dic)

\* ---- the arguments the specification draws from
ParNames == {"U", "a"}

ParValues ==
    { [value |-> Float(0), lb |-> NegInf, ub |-> Inf, vary |-> FALSE],
      [value |-> Float(5), lb |-> Float(0), ub |-> Float(9), vary |-> TRUE] }

ManyArgs ==
    { [names |-> ns, varies |-> [n \in 1..c |-> FALSE],
       values |-> [n \in 1..Len(ns) |-> Float(1)],
       lbs |-> [n \in 1..Len(ns) |-> NegInf],
       ubs |-> [n \in 1..Len(ns) |-> Inf]] :
         ns \in { << "U", "a" >>, << "a", "a" >>, << "a" >> }, c \in 1..2 }

NoLoad == [err |-> "", warn |-> FALSE, d |-> << >>]

\* the object under study after an operation: arg is the key and the object
\* the operation was asked to store; the object that loaded the file is kept
\* until the next operation
Result(op, arg, r) ==
    [pd EXCEPT !.op = op, !.arg = arg, !.d = r.d, !.err = r.err, !.warn = r.warn,
               !.loaded = NoLoad]

NoArg == [key |-> "", p |-> Float(0)]

InitParameters ==
    /\ NoModel /\ NoPhases /\ hk = [op |-> "none"] /\ NoSpectrum /\ NoProfile
    /\ pd = [op |-> "Parameters", arg |-> NoArg, d |-> << >>, err |-> "", warn |-> FALSE,
             file |-> << >>, loaded |-> NoLoad]

\* a new object takes the place of the one under study
P_Parameters ==
    /\ \E name \in ParNames, v \in ParValues :
          pd' = Result("Parameters", NoArg,
                       [err |-> "", warn |-> FALSE, d |-> Parameters(name, v.vary, v.value)])
    /\ UNCHANGED << ModelVars, ph, hk, sp, pv >>

P_add ==
    /\ \E name \in ParNames, v \in ParValues :
          pd' = Result("add", [key |-> name, p |-> Parameter(name, v.value, v.lb, v.ub, v.vary)],
                       add(pd.d, name, v.vary, v.value, v.lb, v.ub))
    /\ UNCHANGED << ModelVars, ph, hk, sp, pv >>

P_add_many ==
    /\ \E a \in ManyArgs : pd' = Result("add_many", NoArg, add_many(pd.d, a))
    /\ UNCHANGED << ModelVars, ph, hk, sp, pv >>

\* params[key] = obj, with a Parameter (of any name) or with a float
P_setitem ==
    /\ \E key \in ParNames, name \in ParNames, v \in ParValues :
          \E obj \in {Parameter(name, v.value, v.lb, v.ub, v.vary), Float(1)} :
             pd' = Result("__setitem__", [key |-> key, p |-> obj],
                          __setitem__(pd.d, key, obj))
    /\ UNCHANGED << ModelVars, ph, hk, sp, pv >>

P_dump ==
    /\ pd' = [pd EXCEPT !.op = "dump", !.arg = NoArg, !.err = "", !.warn = FALSE,
                        !.file = dump(pd.d), !.loaded = NoLoad]
    /\ UNCHANGED << ModelVars, ph, hk, sp, pv >>

\* a new, empty Parameters object loads the file
P_load ==
    /\ pd' = [pd EXCEPT !.op = "load", !.arg = NoArg, !.err = "", !.warn = FALSE,
                        !.loaded = load(Parameters("None", FALSE, Float(0)), pd.file)]
    /\ UNCHANGED << ModelVars, ph, hk, sp, pv >>

NextParameters ==
    \/ P_Parameters
    \/ P_add
    \/ P_add_many
    \/ P_setitem
    \/ P_dump
    \/ P_load

SpecParameters == InitParameters /\ [][NextParameters]_vars

\* the keys of the dict are pairwise different
DistinctKeys(d) == \A m, n \in 1..Len(d) : d[m].key = d[n].key => m = n

\* C15: after any sequence of add, add_many and item assignments the set
\* holds exactly one Parameter per name; an add or an assignment of a
\* Parameter under a name that is present stores the new Parameter in the
\* place of the old one, leaving the number of entries and the order of the
\* names unchanged.
C15_OnePerName ==
    /\ [](DistinctKeys(pd.d))
    /\ [][ (pd'.op \in {"add", "__setitem__"} /\ pd'.err = ""
                /\ HasKey(pd.d, pd'.arg.key))
             => /\ Len(pd'.d) = Len(pd.d)
                /\ \A n \in 1..Len(pd.d) :
                      pd'.d[n] = IF pd.d[n].key = pd'.arg.key THEN pd'.arg ELSE pd.d[n]
                /\ pd'.warn ]_vars

\* a name is added again with other values while a second name follows it
C15_Witness ==
    /\ pd.op = "add" /\ pd.warn /\ Len(pd.d) = 2
    /\ pd.d[1].key = "U" /\ pd.d[1].p.value = Float(5) /\ pd.d[1].p.vary
    /\ pd.d[2].key = "a"

\* two dicts hold the same names in the same order, each with the same value,
\* lower bound, upper bound and vary flag
SameEntries(d, e) ==
    /\ Len(d) = Len(e)
    /\ \A n \in 1..Len(d) :
          /\ d[n].key = e[n].key
          /\ d[n].p.value = e[n].p.value /\ d[n].p.lb = e[n].p.lb
          /\ d[n].p.ub = e[n].p.ub /\ d[n].p.vary = e[n].p.vary

\* C16: for every Parameters object, dump followed by load into an empty
\* Parameters object completes and yields the same names in the same order,
\* each with the same value, lower bound, upper bound and vary flag.
C16_RoundTrip ==
    [][ (pd.op = "dump" /\ pd'.op = "load")
            => pd'.loaded.err = "" /\ SameEntries(pd'.loaded.d, pd.d) ]_vars

\* the same for the objects whose bounds are floats
C16_RoundTripOfFloats ==
    [][ (/\ pd.op = "dump" /\ pd'.op = "load"
         /\ \A n \in 1..Len(pd.d) : pd.d[n].p.lb.k = "float" /\ pd.d[n].p.ub.k = "float")
            => pd'.loaded.err = "" /\ SameEntries(pd'.loaded.d, pd.d) ]_vars

(***************************************************************************)
(* The parameter set a model class builds in initialize_parameters, and    *)
(* the methods of the class that switch the vary flags of a category.      *)
(* Values are in units of 0.001.                                           *)
(***************************************************************************)

SweepVariants == {"LeBail", "Rietveld", "Rietveld_Asym"}

\* the names add_many receives when no parameter file is given
DefaultNames(v) ==
    << "a", "b", "c", "alpha", "beta", "gamma",
       "U", "V", "W", "eta1", "eta2", "eta3", "tth_zero" >>
        \o (IF IsRietveld(v) THEN << "scale" >> ELSE << >>)

DefaultValue(name) ==
    CASE name \in {"a", "b", "c"} -> 5415
      [] name \in {"alpha", "beta", "gamma"} -> 90000
      [] name \in {"U", "V", "W"} -> 500
      [] name \in {"eta1", "eta2", "eta3"} -> 1
      [] name = "tth_zero" -> 0
      [] name = "scale" -> 1000

\* the names initialize_parameters reads from self.params once the set is
\* built, in the order of the reads
ReadNames(v) ==
    CASE v = "LeBail" ->
            << "U", "V", "W", "P", "X", "Y", "eta1", "eta2", "eta3", "zero_error" >>
      [] v = "Rietveld" ->
            << "scale", "U", "V", "W", "P", "X", "Y", "eta1", "eta2", "eta3",
               "zero_error" >>
      [] v = "Rietveld_Asym" ->
            << "scale", "Ul", "Vl", "Wl", "Pl", "Xl", "Yl", "Ur", "Vr", "Wr", "Pr",
               "Xr", "Yr", "eta1", "eta2", "eta3", "zero_error" >>

\* the reads self.params[name] in order: ValueError at the first name the set
\* does not hold
ReadAll(ps, names) ==
    IF \A n \in 1..Len(names) : Has(ps, names[n]) THEN "" ELSE "ValueError"

\* initialize_parameters(param_file): without a file the default entries;
\* with a file the entries of the file (here one entry, value 0, for every
\* name the class reads) and the lattice parameter of a cubic phase "ph";
\* then the reads of the shape coefficients and of the zero shift
initialize_parameters_from(v, param_file) ==
    LET default == [n \in 1..Len(DefaultNames(v)) |->
                       Parameter(DefaultNames(v)[n], Float(DefaultValue(DefaultNames(v)[n])),
                                 NegInf, Inf, FALSE)]
        file == [n \in 1..Len(ReadNames(v)) |->
                       Parameter(ReadNames(v)[n], Float(0), Float(0), Float(1000), FALSE)]
                    \o << Parameter("ph_a", Float(5415), Float(5365), Float(5465), FALSE) >>
        Built(ps) == [err |-> ReadAll(ps, ReadNames(v)), params |-> ps]
    IN  IF param_file = "None" THEN Built(default) ELSE Built(file)

\* the statements self.params[name].vary = b for the names in order; a name
\* the set does not hold raises ValueError
SetVaryOf(ps, names, b) ==
    LET first == IF \E n \in 1..Len(names) : ~Has(ps, names[n])
                 THEN CHOOSE n \in 1..Len(names) :
                         /\ ~Has(ps, names[n])
                         /\ \A m \in 1..(n - 1) : Has(ps, names[m])
                 ELSE Len(names) + 1
        done == { names[n] : n \in 1..(first - 1) }
    IN  [err |-> IF first <= Len(names) THEN "ValueError" ELSE "",
         params |-> [n \in 1..Len(ps) |->
                        IF ps[n].name \in done THEN [ps[n] EXCEPT !.vary = b] ELSE ps[n]]]

AllNames(ps) == [n \in 1..Len(ps) |-> ps[n].name]

\* the methods of each class: the names a method assigns to and the value it
\* assigns.  Rietveld defines params_eta_vary_on twice; the second
\* definition, which assigns False, is the one the class keeps.
Methods(v) ==
    CASE v = "LeBail" -> {"params_vary_off", "params_vary_on"}
      [] v = "Rietveld" ->
            {"params_vary_off", "params_vary_on", "params_cagliotti_vary_on",
             "params_cagliotti_vary_off", "params_eta_vary_on",
             "params_lp_vary_all_on", "params_lp_vary_all_off"}
      [] v = "Rietveld_Asym" ->
            {"params_vary_off", "params_vary_on", "params_cagliotti_vary_on",
             "params_cagliotti_vary_off", "params_lorentz_vary_on",
             "params_lorentz_vary_off", "params_eta_vary_on", "params_eta_vary_off",
             "params_lp_vary_all_on", "params_lp_vary_all_off"}

MethodNames(v, m, ps) ==
    CASE m \in {"params_vary_off", "params_vary_on"} -> AllNames(ps)
      [] m = "params_cagliotti_vary_on" ->
            IF v = "Rietveld" THEN << "U", "V", "W" >>
            ELSE << "Ul", "Vl", "Wl", "Pl", "Ur", "Vr", "Wr", "Pr" >>
      [] m = "params_cagliotti_vary_off" ->
            IF v = "Rietveld" THEN << "U", "V", "W" >>
            ELSE << "Ul", "Vl", "Wl", "Ur", "Vr", "Wr", "Pr" >>
      [] m \in {"params_lorentz_vary_on", "params_lorentz_vary_off"} ->
            << "Xl", "Yl", "Xr", "Yr" >>
      [] m \in {"params_eta_vary_on", "params_eta_vary_off"} ->
            << "eta1", "eta2", "eta3" >>
      [] m \in {"params_lp_vary_all_on", "params_lp_vary_all_off"} -> << "ph_a" >>

MethodValue(v, m) ==
    CASE m \in {"params_vary_on", "params_cagliotti_vary_on", "params_lorentz_vary_on",
                "params_lp_vary_all_on"} -> TRUE
      [] m = "params_eta_vary_on" -> v # "Rietveld"
      [] OTHER -> FALSE

AllMethods == UNION { Methods(v) : v \in SweepVariants }

\* a call of method m on a model of class v
Call(v, m, ps) ==
    IF m \in Methods(v)
    THEN SetVaryOf(ps, MethodNames(v, m, ps), MethodValue(v, m))
    ELSE [err |-> "AttributeError", params |-> ps]

\* no model yet
InitVary ==
    /\ NoModel /\ NoPhases /\ hk = [op |-> "none"] /\ NoSpectrum /\ NoProfile
    /\ pd = [op |-> "none", variant |-> "none", param_file |-> "None", err |-> "",
             params |-> << >>]

\* a model of one of the classes is constructed
V_initialize_parameters ==
    /\ \E v \in SweepVariants, f \in {"None", "file"} :
          LET New(r) == pd' = [op |-> "initialize_parameters", variant |-> v,
                               param_file |-> f, err |-> r.err, params |-> r.params]
          IN  New(initialize_parameters_from(v, f))
    /\ UNCHANGED << ModelVars, ph, hk, sp, pv >>

\* a method of the model is called; a model whose construction raised has no
\* methods to call
V_Call ==
    /\ pd.op # "none" /\ (pd.op = "initialize_parameters" => pd.err = "")
    /\ \E m \in AllMethods :
          LET Done(r) == pd' = [pd EXCEPT !.op = m, !.err = r.err, !.params = r.params]
          IN  Done(Call(pd.variant, m, pd.params))
    /\ UNCHANGED << ModelVars, ph, hk, sp, pv >>

\* the user sets one flag: model.params[name].vary = b
V_SetVary ==
    /\ pd.op # "none" /\ (pd.op = "initialize_parameters" => pd.err = "")
    /\ \E name \in {"zero_error", "eta1"}, b \in BOOLEAN :
          LET Done(r) == pd' = [pd EXCEPT !.op = "vary", !.err = r.err, !.params = r.params]
          IN  Done(SetVaryOf(pd.params, << name >>, b))
    /\ UNCHANGED << ModelVars, ph, hk, sp, pv >>

NextVary ==
    \/ V_initialize_parameters
    \/ V_Call
    \/ V_SetVary

SpecVary == InitVary /\ [][NextVary]_vars

\* every one of the names has vary = b in the set
AllVary(ps, names, b) == \A n \in 1..Len(names) : Get(ps, names[n]).vary = b

\* C17: params_<category>_vary_on leaves every parameter of the category
\* with vary = true, and params_<category>_vary_off leaves every parameter
\* that the category's _on method sets with vary = false; in particular
\* Rietveld.params_eta_vary_on and Rietveld_Asym.params_cagliotti_vary_off.
C17_OnSetsOffClears ==
    \A cat \in {"cagliotti", "lorentz", "eta", "lp_vary_all"} :
        LET on == IF cat = "lp_vary_all" THEN "params_lp_vary_all_on"
                  ELSE "params_" \o cat \o "_vary_on"
            off == IF cat = "lp_vary_all" THEN "params_lp_vary_all_off"
                   ELSE "params_" \o cat \o "_vary_off"
        IN  /\ (pd.op = on /\ pd.err = "")
                => AllVary(pd.params, MethodNames(pd.variant, on, pd.params), TRUE)
            /\ (pd.op = off /\ pd.err = "")
                => AllVary(pd.params, MethodNames(pd.variant, on, pd.params), FALSE)

\* the two cases the claim names, one at a time
C17_RietveldEtaOn ==
    (pd.op = "params_eta_vary_on" /\ pd.variant = "Rietveld")
        => AllVary(pd.params, << "eta1", "eta2", "eta3" >>, TRUE)

C17_AsymCagliottiOff ==
    (pd.op = "params_cagliotti_vary_off" /\ pd.variant = "Rietveld_Asym")
        => AllVary(pd.params, << "Ul", "Vl", "Wl", "Pl", "Ur", "Vr", "Wr", "Pr" >>, FALSE)

\* C18: initialize_parameters called with param_file = None completes
\* without error and leaves the default entries, all with vary = false.
C18_DefaultsComplete ==
    (pd.op = "initialize_parameters" /\ pd.param_file = "None")
        => /\ pd.err = ""
           /\ AllVary(pd.params, AllNames(pd.params), FALSE)

(***************************************************************************)
(* The peak profile of LeBail, LeBail_Asym and Rietveld.  Coefficients are *)
(* small integers; tan(th) and 1/cos(th) are taken to three decimals, so   *)
(* Hsq is in units of 1e-6 and gamma in units of 1e-3.  A width is a       *)
(* record [v, eps]: the number v, or (eps) the small positive constant the *)
(* code substitutes.  An element of a computed array is known by its       *)
(* class: "nonneg" (finite, >= 0), "neg" (finite, < 0), "mixed" (finite,   *)
(* sign depending on magnitudes) or "nan".                                 *)
(***************************************************************************)

tth_list == << 60, 90, 120 >>

\* 1000 * np.tan(np.radians(0.5 * tth))
tanth(centre) == CASE centre = 60 -> 577 [] centre = 90 -> 1000 [] centre = 120 -> 1732

\* 1000 / np.cos(np.radians(0.5 * tth))
secth(centre) == CASE centre = 60 -> 1155 [] centre = 90 -> 1414 [] centre = 120 -> 2000

\* the clamp `if(x < 0.): x = <small positive constant>`
ClampNegative(x) == IF x < 0 THEN [v |-> 0, eps |-> TRUE] ELSE [v |-> x, eps |-> FALSE]

\* LeBail.CagliottiH: Hsq = U*tanth**2 + V*tanth + W, clamped; c = <<U, V, W, P>>
CagliottiH(c, centre) ==
    ClampNegative(c[1] * tanth(centre) * tanth(centre) + c[2] * tanth(centre) * 1000
                      + c[3] * 1000000)

\* LeBail_Asym.CagliottiH for one branch: the term P / cth**2 is added
CagliottiH_Asym(c, centre) ==
    ClampNegative(c[1] * tanth(centre) * tanth(centre) + c[2] * tanth(centre) * 1000
                      + c[3] * 1000000 + c[4] * secth(centre) * secth(centre))

\* LeBail.LorentzH: gamma = X/cth + Y*tanth, not clamped; c = <<X, Y>>
LorentzH(c, centre) == [v |-> c[1] * secth(centre) + c[2] * tanth(centre), eps |-> FALSE]

\* LeBail_Asym.LorentzH for one branch: a negative gamma is replaced
LorentzH_Asym(c, centre) == ClampNegative(c[1] * secth(centre) + c[2] * tanth(centre))

\* MixingFact: eta = eta1 + eta2*tth + eta3*tth**2 clamped to [0, 1], in
\* units of 0.001
MixingFact(c, centre) ==
    LET eta == c[1] + c[2] * centre + c[3] * centre * centre
    IN  IF eta > 1000 THEN 1000 ELSE IF eta < 0 THEN 0 ELSE eta

IsPositive(w) == w.eps \/ w.v > 0

IsZero(w) == ~w.eps /\ w.v = 0

\* one element of Gaussian or Lorentzian for a width H: (k/H) times a factor
\* in [0, 1] computed from (x - tth)/H.  H = 0 gives inf * 0 or a 0/0 inside,
\* both nan; H < 0 gives a negative value.
PeakClass(H) ==
    IF IsPositive(H) THEN "nonneg" ELSE IF IsZero(H) THEN "nan" ELSE "neg"

\* LeBail.Gaussian / LeBail.Lorentzian: one element per point of tth_list
Symmetric(H) == [n \in 1..Len(tth_list) |-> PeakClass(H)]

\* LeBail_Asym.Gaussian / Lorentzian: the points left of the peak with the
\* left width, the others with the right width, each side scaled by a factor
\* computed from the maxima of both sides (nan as soon as one maximum is
\* nan), and the two sides stacked
Asymmetric(Hl, Hr, centre) ==
    LET left == SelectSeq(tth_list, LAMBDA x : x < centre)
        right == SelectSeq(tth_list, LAMBDA x : ~(x < centre))
        Il == [n \in 1..Len(left) |-> PeakClass(Hl)]
        Ir == [n \in 1..Len(right) |-> PeakClass(Hr)]
    IN  IF Len(left) = 0 THEN Ir
        ELSE IF Len(right) = 0 THEN Il
        ELSE IF PeakClass(Hl) = "nan" \/ PeakClass(Hr) = "nan"
        THEN [n \in 1..(Len(left) + Len(right)) |-> "nan"]
        ELSE Il \o Ir

\* eta * g + (1 - eta) * l for one element
Mix(eta, g, l) ==
    IF g = "nan" \/ l = "nan" THEN "nan"
    ELSE LET geff == IF eta = 0 THEN "nonneg" ELSE g
             leff == IF eta = 1000 THEN "nonneg" ELSE l
         IN  IF geff = "nonneg" /\ leff = "nonneg" THEN "nonneg"
             ELSE IF geff # "nonneg" /\ leff # "nonneg" THEN "neg"
             ELSE IF eta = 0 \/ eta = 1000 THEN "neg" ELSE "mixed"

\* PseudoVoight(tth) of the model whose shape attributes are a
PseudoVoight(variant_, a, centre) ==
    LET Hl == IF variant_ # "LeBail_Asym" THEN CagliottiH(a.cagl, centre)
              ELSE CagliottiH_Asym(a.cagl, centre)
        Hr == IF variant_ # "LeBail_Asym" THEN Hl ELSE CagliottiH_Asym(a.cagr, centre)
        gl == IF variant_ # "LeBail_Asym" THEN LorentzH(a.lorl, centre)
              ELSE LorentzH_Asym(a.lorl, centre)
        gr == IF variant_ # "LeBail_Asym" THEN gl ELSE LorentzH_Asym(a.lorr, centre)
        GaussianI == IF variant_ # "LeBail_Asym" THEN Symmetric(Hl)
                     ELSE Asymmetric(Hl, Hr, centre)
        \* the width H of Lorentzian: self.gamma in LeBail (line 1492) and
        \* LeBail_Asym, self.Hcag in Rietveld (line 4776)
        Lw == IF variant_ = "Rietveld" THEN Hl ELSE gl
        LorentzI == IF variant_ # "LeBail_Asym" THEN Symmetric(Lw)
                    ELSE Asymmetric(gl, gr, centre)
        eta == MixingFact(a.eta, centre)
    IN  [tth |-> centre, Hl |-> Hl, Hr |-> Hr, gl |-> gl, gr |-> gr, Lw |-> Lw,
         eta |-> eta, LorentzI |-> LorentzI,
         PV |-> [n \in 1..Len(tth_list) |-> Mix(eta, GaussianI[n], LorentzI[n])]]

\* ---- the shape coefficients the specification draws from
CagVals == { << 0, 0, 0, 0 >>, << 0, 0, 1, 0 >>, << 0, 0, -1, 0 >>, << 0, -1, 0, 1 >> }

LorVals == { << 0, 0 >>, << 1, 0 >>, << -1, 0 >>, << 1, -1 >> }

\* the values given to the right branch of LeBail_Asym
CagValsR == { << 0, 0, 0, 0 >>, << 0, 0, 1, 0 >> }

LorValsR == { << 0, 0 >>, << 1, 0 >> }

EtaVals == { << 500, 0, 0 >>, << 2000, 0, 0 >>, << -1000, 10, 0 >> }

ProfileVariants == {"LeBail", "LeBail_Asym", "Rietveld"}

NoProfileYet == [tth |-> 0, Hl |-> ClampNegative(1), Hr |-> ClampNegative(1),
                 gl |-> ClampNegative(1), gr |-> ClampNegative(1), Lw |-> ClampNegative(1),
                 eta |-> 0, LorentzI |-> << >>, PV |-> << >>]

InitProfile ==
    /\ NoModel /\ NoPhases /\ hk = [op |-> "none"] /\ NoSpectrum /\ NoParameters
    /\ \E v \in ProfileVariants :
          pv = [op |-> "init", variant |-> v,
                a |-> [cagl |-> << 0, 0, 1, 0 >>, cagr |-> << 0, 0, 1, 0 >>,
                       lorl |-> << 1, 0 >>, lorr |-> << 1, 0 >>, eta |-> << 500, 0, 0 >>],
                out |-> NoProfileYet]

\* the property setters of the shape coefficients (U, V, W, P; X, Y; eta1,
\* eta2, eta3; with suffix l or r in LeBail_Asym)
PV_set ==
    /\ \/ \E c \in CagVals : pv' = [pv EXCEPT !.op = "set", !.a.cagl = c]
       \/ \E c \in CagValsR : /\ pv.variant = "LeBail_Asym"
                             /\ pv' = [pv EXCEPT !.op = "set", !.a.cagr = c]
       \/ \E c \in LorVals : pv' = [pv EXCEPT !.op = "set", !.a.lorl = c]
       \/ \E c \in LorValsR : /\ pv.variant = "LeBail_Asym"
                             /\ pv' = [pv EXCEPT !.op = "set", !.a.lorr = c]
       \/ \E c \in EtaVals : pv' = [pv EXCEPT !.op = "set", !.a.eta = c]
    /\ UNCHANGED << ModelVars, ph, hk, sp, pd >>

PV_PseudoVoight ==
    /\ \E n \in 1..Len(tth_list) :
          pv' = [pv EXCEPT !.op = "PseudoVoight",
                           !.out = PseudoVoight(pv.variant, pv.a, tth_list[n])]
    /\ UNCHANGED << ModelVars, ph, hk, sp, pd >>

NextProfile ==
    \/ PV_set
    \/ PV_PseudoVoight

SpecProfile == InitProfile /\ [][NextProfile]_vars

\* C19: for every choice of shape coefficients and every peak centre the
\* Gaussian and the Lorentzian width used by PseudoVoight are strictly
\* positive and eta lies in [0, 1], and PseudoVoight returns one finite,
\* non-negative value per point of the grid.
C19_ProfileWellDefined ==
    pv.op = "PseudoVoight"
        => /\ IsPositive(pv.out.Hl) /\ IsPositive(pv.out.Hr)
           /\ IsPositive(pv.out.gl) /\ IsPositive(pv.out.gr)
           /\ pv.out.eta >= 0 /\ pv.out.eta <= 1000
           /\ Len(pv.out.PV) = Len(tth_list)
           /\ \A n \in 1..Len(pv.out.PV) : pv.out.PV[n] = "nonneg"

\* the part of C19 that the clamp of MixingFact guarantees
C19_EtaInRange == pv.op = "PseudoVoight" => pv.out.eta >= 0 /\ pv.out.eta <= 1000

\* C20: in every RefineCycle of a LeBail variant CalcIobs runs before the
\* solver and its result takes the place of Icalc; every residual evaluation
\* of the cycle computes its spectrum from exactly those intensities; Icalc
\* changes at no other step, so once per cycle and never inside a residual
\* evaluation.
C20_IcalcOncePerCycle ==
    /\ [][ (pc = "idle" /\ pc' = "solving" /\ ~IsRietveld(variant))
              => Icalc' = Icalc + 1 /\ nfev' = 0 ]_vars
    /\ [][ Icalc' # Icalc => (pc = "idle" /\ pc' = "solving") ]_vars
    /\ [][ (pc = "solving" /\ nfev' = nfev + 1 /\ ~raised' /\ ~IsRietveld(variant))
              => Icalc' = Icalc /\ spectrum_sim'.I = << Icalc >> ]_vars

\* the second residual evaluation of the second cycle of a LeBail model
C20_Witness ==
    /\ variant = "LeBail" /\ pc = "solving" /\ niter = 1 /\ nfev = 2
    /\ Icalc = 2 /\ spectrum_sim.I = << 2 >>

\* a step in which a residual evaluation computes the spectrum
Synthesises == pc = "solving" /\ nfev' = nfev + 1 /\ ~raised'

\* C21: when a residual evaluation synthesises the spectrum, the metric
\* tensor and the two-theta positions, and in the Rietveld variants the
\* structure factors with the thermal tensors betaij they use, were computed
\* from the lattice and atom parameters of that same evaluation.
C21_DerivedFromSameEvaluation ==
    [][ Synthesises =>
          /\ mat'.dmt = _calcrmt(mat'.lparms)
          /\ spectrum_sim'.tth = calctth(mat')
          /\ IsRietveld(variant) =>
                /\ spectrum_sim'.I.lparms = mat'.lparms
                /\ spectrum_sim'.I.atom_pos = mat'.atom_pos
                /\ mat'.aniU => spectrum_sim'.I.betaij = mat'.lparms ]_vars

\* the part of C21 about the lattice: metric tensor, two-theta positions and
\* the lattice the structure factors were computed on
C21_MetricAndPositions ==
    [][ Synthesises =>
          /\ mat'.dmt = _calcrmt(mat'.lparms)
          /\ spectrum_sim'.tth = calctth(mat')
          /\ IsRietveld(variant) => spectrum_sim'.I.lparms = mat'.lparms ]_vars

\* C25: in the symmetric pseudo-Voigt variants (LeBail and Rietveld) the
\* Lorentzian component of a peak is evaluated with the half-width
\* gamma = X/cos(theta) + Y*tan(theta), not with the Cagliotti width.
C25_LorentzianUsesGamma ==
    (pv.op = "PseudoVoight" /\ pv.variant \in {"LeBail", "Rietveld"})
        => /\ pv.out.Lw = LorentzH(pv.a.lorl, pv.out.tth)
           /\ pv.out.LorentzI = Symmetric(LorentzH(pv.a.lorl, pv.out.tth))

\* the same for LeBail alone
C25_LeBailUsesGamma ==
    (pv.op = "PseudoVoight" /\ pv.variant = "LeBail")
        => /\ pv.out.Lw = LorentzH(pv.a.lorl, pv.out.tth)
           /\ pv.out.LorentzI = Symmetric(LorentzH(pv.a.lorl, pv.out.tth))

\* a residual evaluation at a trial point that exposes some, not all, of the
\* lattice parameters the phase's lattice type requires
PartialLattice ==
    /\ pc = "solving" /\ nfev' = nfev + 1
    /\ TrialLp(trial') # << >>
    /\ Len(TrialLp(trial')) < Len(RqpIndex(mat.sg.latticeType))

\* the six lattice parameters with the exposed ones at their trial values and
\* the others at their current values
Rebuilt(m, t) ==
    LET rid == RqpIndex(m.sg.latticeType)
        req == [i \in 1..Len(rid) |->
                   IF Has(t, "ph_" \o _lpname[rid[i]])
                   THEN Get(t, "ph_" \o _lpname[rid[i]]).value
                   ELSE m.lparms[rid[i]]]
    IN  Required_lp(m.sg.latticeType, req).lp

\* C28: when only a non-empty proper subset of the required lattice
\* parameters of a phase varies (only 'c' of a tetragonal phase), the residual
\* evaluation completes without error and rebuilds the six lattice parameters
\* with the varying ones at their trial values and the others at their
\* current values.
C28_PartialLatticeCompletes ==
    [][ PartialLattice => (~raised' /\ mat'.lparms = Rebuilt(mat, trial')) ]_vars

\* with every required lattice parameter exposed the evaluation does that
C28_FullLatticeCompletes ==
    [][ (/\ pc = "solving" /\ nfev' = nfev + 1
         /\ Len(TrialLp(trial')) = Len(RqpIndex(mat.sg.latticeType)))
            => (~raised' /\ mat'.lparms = Rebuilt(mat, trial')) ]_vars

\* indices beyond the candidate box that are searched for reflections
BoxMargin == 1

\* every reflection g # 0 with d(g) >= dmin and indices within margin of the
\* box of crystal x has g or -g in the candidate list box
BoxComplete(x, dmin, box, margin) ==
    LET Covered(dmt, idx) ==
            \A h \in (0 - idx.ih - margin)..(idx.ih + margin),
               k \in (0 - idx.ik - margin)..(idx.ik + margin),
               l \in (0 - idx.il - margin)..(idx.il + margin) :
                  (<<h, k, l>> # <<0, 0, 0>> /\ DspAtLeast(<<h, k, l>>, dmt, dmin))
                      => (InSeq(<<h, k, l>>, box) \/ InSeq(<<0 - h, 0 - k, 0 - l>>, box))
        Indexed(dmt) == Covered(dmt, CalcMaxGIndex(dmt, dmin))
    IN  Indexed(_calcrmt(x.lparms))

\* C23: the candidate box h in [-ih, ih], k in [-ik, ik], l in [0, il] with
\* ih, ik, il from CalcMaxGIndex is complete for every lattice, oblique
\* lattices included: each non-zero reflection g with d(g) >= dmin has g or
\* -g in the box.
C23_BoxComplete ==
    hk.op = "Material_LeBail" => BoxComplete(hk.xtal, hk.dmin, hk.in, BoxMargin)

\* the box is complete for the lattices with three right angles
C23_OrthogonalBoxComplete ==
    (/\ hk.op = "Material_LeBail"
     /\ hk.xtal.sg.latticeType \in {"orthorhombic", "tetragonal", "cubic"})
        => BoxComplete(hk.xtal, hk.dmin, hk.in, BoxMargin)

(***************************************************************************)
(* The observed intensities of the LeBail variants.  A float is known by   *)
(* its class: "zero", "pos" (finite, > 0), "inf" or "nan"; the inputs are  *)
(* non-negative, so sums and products of classes are exact.  pv holds the  *)
(* model: Icalc and the profile of each peak, the background, the measured *)
(* and the simulated spectrum on the grid, and Iobs.                       *)
(***************************************************************************)

\* IEEE multiplication, division and addition on classes
FMul(a, b) ==
    IF a = "nan" \/ b = "nan" THEN "nan"
    ELSE IF a = "inf" \/ b = "inf"
         THEN IF a = "zero" \/ b = "zero" THEN "nan" ELSE "inf"
    ELSE IF a = "zero" \/ b = "zero" THEN "zero" ELSE "pos"

FDiv(a, b) ==
    IF a = "nan" \/ b = "nan" THEN "nan"
    ELSE IF b = "zero" THEN (IF a = "zero" THEN "nan" ELSE "inf")
    ELSE IF b = "inf" THEN (IF a = "inf" THEN "nan" ELSE "zero")
    ELSE a

FAdd(a, b) ==
    IF a = "nan" \/ b = "nan" THEN "nan"
    ELSE IF a = "inf" \/ b = "inf" THEN "inf"
    ELSE IF a = "pos" \/ b = "pos" THEN "pos" ELSE "zero"

\* np.trapz(y, tth_list): a sum of the elements with positive weights
RECURSIVE trapz(_)
trapz(y) == IF Len(y) = 0 THEN "zero" ELSE FAdd(y[1], trapz(Tail(y)))

\* initialize_Icalc: 1000.0 for every reflection
initialize_Icalc(profiles) == [i \in 1..Len(profiles) |-> "pos"]

\* computespectrum on the grid: y += Ic[i] * PV for every peak, then
\* spectrum_sim = Spectrum(x, y) + background
RECURSIVE Peaks(_, _, _)
Peaks(Ic, profiles, n) ==
    IF Len(Ic) = 0 THEN "zero"
    ELSE FAdd(FMul(Ic[1], profiles[1][n]), Peaks(Tail(Ic), Tail(profiles), n))

computespectrum_grid(Ic, profiles, background) ==
    [n \in 1..Len(background) |-> FAdd(Peaks(Ic, profiles, n), background[n])]

\* CalcIobs: for every peak I = np.trapz(yo * y / yc, tth_list) with
\* y = PV * Ic[i], yo the measured and yc the simulated spectrum
CalcIobs_I(Ic_i, PV, yo, yc) ==
    trapz([n \in 1..Len(yc) |-> FDiv(FMul(yo[n], FMul(PV[n], Ic_i)), yc[n])])

CalcIobs_Iobs(Ic, profiles, yo, yc) ==
    [i \in 1..Len(Ic) |-> CalcIobs_I(Ic[i], profiles[i], yo, yc)]

\* the profile of a peak on the grid: positive everywhere, or (a pure
\* Gaussian, eta = 1) underflowing to 0.0 far from the peak
ProfilesOnGrid ==
    { << p1, p2 >> : p1 \in { << "pos", "pos", "pos" >>, << "pos", "pos", "zero" >> },
                     p2 \in { << "pos", "pos", "pos" >>, << "zero", "pos", "pos" >>,
                              << "pos", "pos", "zero" >> } }

\* measured spectrum and spline background on the grid
GridValues == [1..3 -> {"zero", "pos"}]

\* the model after __init__: initialize_Icalc, then computespectrum
InitIobs ==
    /\ NoModel /\ NoPhases /\ hk = [op |-> "none"] /\ NoSpectrum /\ NoParameters
    /\ \E v \in {"LeBail", "LeBail_Asym"}, profiles \in ProfilesOnGrid,
          yo \in GridValues, background \in GridValues :
          LET Built(Ic) ==
                  pv = [op |-> "init", variant |-> v, profiles |-> profiles,
                        spectrum_expt |-> yo, background |-> background,
                        Icalc |-> Ic, Iobs |-> << >>, yc |-> << >>,
                        spectrum_sim |-> computespectrum_grid(Ic, profiles, background)]
          IN  Built(initialize_Icalc(profiles))

\* CalcIobs called on the model
IO_CalcIobs ==
    /\ pv.op \in {"init", "RefineCycle"}
    /\ pv' = [pv EXCEPT !.op = "CalcIobs", !.yc = pv.spectrum_sim,
                        !.Iobs = CalcIobs_Iobs(pv.Icalc, pv.profiles, pv.spectrum_expt,
                                               pv.spectrum_sim)]
    /\ UNCHANGED << ModelVars, ph, hk, sp, pd >>

\* RefineCycle: CalcIobs, Icalc = Iobs, and the spectrum the solve leaves
IO_RefineCycle ==
    /\ pv.op \in {"init", "CalcIobs"}
    /\ LET Solved(Iobs) ==
               pv' = [pv EXCEPT !.op = "RefineCycle", !.yc = pv.spectrum_sim,
                                !.Iobs = Iobs, !.Icalc = Iobs,
                                !.spectrum_sim =
                                    computespectrum_grid(Iobs, pv.profiles, pv.background)]
       IN  Solved(CalcIobs_Iobs(pv.Icalc, pv.profiles, pv.spectrum_expt, pv.spectrum_sim))
    /\ UNCHANGED << ModelVars, ph, hk, sp, pd >>

NextIobs ==
    \/ IO_CalcIobs
    \/ IO_RefineCycle

SpecIobs == InitIobs /\ [][NextIobs]_vars

Finite(x) == x \in {"zero", "pos"}

\* C24: CalcIobs never divides by a zero total simulated intensity, and every
\* observed intensity it returns is finite, also when the simulated spectrum
\* (peaks plus background) is 0 at a grid point.
C24_IobsFinite ==
    pv.op \in {"CalcIobs", "RefineCycle"}
        => /\ \A n \in 1..Len(pv.yc) : pv.yc[n] # "zero"
           /\ \A i \in 1..Len(pv.Iobs) : Finite(pv.Iobs[i])

\* where the simulated spectrum is finite and non-zero on the whole grid the
\* observed intensities are finite
C24_FiniteWhereSimulatedPositive ==
    (/\ pv.op \in {"CalcIobs", "RefineCycle"}
     /\ \A n \in 1..Len(pv.yc) : pv.yc[n] = "pos")
        => \A i \in 1..Len(pv.Iobs) : Finite(pv.Iobs[i])

(***************************************************************************)
(* Residual evaluation over several phases (LeBail variants).  The phases  *)
(* are cubic, named by their position in phase_dict; ph holds the cursor n *)
(* of the Phases_LeBail object, the lattice parameter a of each phase, the *)
(* lattice parameter each phase's tth was computed from, the vary flag of  *)
(* each <phase>_a, and the trial values of the last evaluation.            *)
(***************************************************************************)

MaxPhases == 3

\* Phases_LeBail.__iter__: the collection is its own iterator
__iter__(c) == [c EXCEPT !.n = 0]

\* Phases_LeBail.__next__: the phase at the cursor, or StopIteration
__next__(c) ==
    IF c.n < Len(c.lparms)
    THEN [stop |-> FALSE, res |-> c.n + 1, c |-> [c EXCEPT !.n = c.n + 1]]
    ELSE [stop |-> TRUE, res |-> 0, c |-> c]

\* the body of "for p in self.phases" in calctth, from the cursor on
RECURSIVE calctth_loop(_)
calctth_loop(c) ==
    LET Body(nx) ==
            IF nx.stop THEN nx.c
            ELSE calctth_loop([nx.c EXCEPT !.tth[nx.res] = nx.c.lparms[nx.res]])
    IN  Body(__next__(c))

\* LeBail_Asym.calctth: self.tth = {}; for p in self.phases: ...
calctth_phases(c) ==
    calctth_loop(__iter__([c EXCEPT !.tth = [p \in 1..Len(c.lparms) |-> 0]]))

\* the body of "for p in self.phases" in calcRwp, from the cursor on: the
\* lattice parameter of a phase whose <p>_a is among the solver's parameters
\* is set to the trial value; LeBail_Asym and LeBail_FPA call calctth there
RECURSIVE calcRwp_loop(_, _, _)
calcRwp_loop(v, c, t) ==
    LET Update(p, c1) ==
            IF ~c1.vary[p] THEN c1
            ELSE IF v = "LeBail" THEN [c1 EXCEPT !.lparms[p] = t[p]]
            ELSE calctth_phases([c1 EXCEPT !.lparms[p] = t[p]])
        Body(nx) ==
            IF nx.stop THEN nx.c
            ELSE calcRwp_loop(v, Update(nx.res, [nx.c EXCEPT !.visited = Append(@, nx.res)]), t)
    IN  Body(__next__(c))

\* calcRwp(params) up to computespectrum; LeBail calls calctth after the loop
calcRwp_phases(v, c, t) ==
    LET Looped(c1) == IF v = "LeBail" THEN calctth_phases(c1) ELSE c1
    IN  Looped(calcRwp_loop(v, __iter__([c EXCEPT !.visited = << >>]), t))

PhaseLp == {10, 11}

InitPhases ==
    /\ NoModel /\ hk = [op |-> "none"] /\ NoSpectrum /\ NoParameters /\ NoProfile
    /\ \E v \in {"LeBail", "LeBail_Asym", "LeBail_FPA"}, N \in 1..MaxPhases :
          ph = [op |-> "init", variant |-> v, n |-> 0,
                lparms |-> [p \in 1..N |-> 10], tth |-> [p \in 1..N |-> 10],
                vary |-> [p \in 1..N |-> FALSE], trial |-> [p \in 1..N |-> 10],
                visited |-> << >>]

\* the user sets params[<phase>_a].vary
PH_SetVary ==
    /\ \E p \in 1..Len(ph.lparms) :
          ph' = [ph EXCEPT !.op = "SetVary", !.vary[p] = ~ph.vary[p]]
    /\ UNCHANGED << ModelVars, hk, sp, pd, pv >>

\* the solver evaluates the residual at trial values of the varying phases
PH_calcRwp ==
    /\ \E t \in [1..Len(ph.lparms) -> PhaseLp] :
          /\ \A p \in 1..Len(ph.lparms) : ~ph.vary[p] => t[p] = ph.lparms[p]
          /\ LET Left(c) == ph' = [c EXCEPT !.op = "calcRwp", !.trial = t]
             IN  Left(calcRwp_phases(ph.variant, [n |-> ph.n, lparms |-> ph.lparms,
                                                   tth |-> ph.tth, vary |-> ph.vary,
                                                   visited |-> << >>, op |-> ph.op,
                                                   variant |-> ph.variant, trial |-> t], t))
    /\ UNCHANGED << ModelVars, hk, sp, pd, pv >>

NextPhases ==
    \/ PH_SetVary
    \/ PH_calcRwp

SpecPhases == InitPhases /\ [][NextPhases]_vars

\* every phase whose lattice parameter varies has the trial value and the
\* positions computed from it, and the loop reached every phase
AllPhasesUpdated ==
    /\ \A p \in 1..Len(ph.lparms) :
          ph.vary[p] => (ph.lparms[p] = ph.trial[p] /\ ph.tth[p] = ph.trial[p])
    /\ ph.visited = [p \in 1..Len(ph.lparms) |-> p]

\* C26: in a residual evaluation of LeBail_Asym or LeBail_FPA on two or more
\* phases every phase whose lattice parameters vary is updated: calctth,
\* which iterates the phase collection through the collection's one cursor,
\* never ends the loop over the phases early or skips a later phase.
C26_EveryPhaseUpdated ==
    (/\ ph.op = "calcRwp" /\ ph.variant \in {"LeBail_Asym", "LeBail_FPA"}
     /\ Len(ph.lparms) >= 2)
        => AllPhasesUpdated

\* LeBail, which calls calctth after the loop, updates every phase
C26_LeBailEveryPhaseUpdated ==
    (ph.op = "calcRwp" /\ ph.variant = "LeBail") => AllPhasesUpdated

(***************************************************************************)
(* Atom parameters of a Rietveld model of several phases.  A phase is its  *)
(* atom_type list; the name p + '_' + elem + str(label) + '_x' is kept as  *)
(* the tuple <<p, elem, label>>, one coordinate standing for x, y, z, occ  *)
(* and the thermal factors.  ph holds the phases, the names of self.params,*)
(* self.atom_label, the names with vary set, and the names the last        *)
(* operation built with the exception it ended with.                       *)
(***************************************************************************)

\* _getnumber: res[i] = np.sum(arr[0:i+1] == arr[i])
_getnumber(arr) == [i \in 1..Len(arr) |-> Cardinality({j \in 1..i : arr[j] = arr[i]})]

\* the sites of all phases in the order of "for p in self.phases: for i in
\* range(atom_type.shape[0])"
RECURSIVE Sites(_, _)
Sites(phases, p) ==
    IF p > Len(phases) THEN << >>
    ELSE [i \in 1..Len(phases[p]) |-> << p, i >>] \o Sites(phases, p + 1)

\* Rietveld.initialize_parameters: the atom parameters of every phase, named
\* with atom_label = _getnumber(atom_type) of that phase; self.atom_label is
\* assigned in the loop and keeps the labels of the last phase
initialize_parameters_atoms(phases) ==
    LET sites == Sites(phases, 1)
    IN  [names |-> [k \in 1..Len(sites) |->
                       << sites[k][1], phases[sites[k][1]][sites[k][2]],
                          _getnumber(phases[sites[k][1]])[sites[k][2]] >>],
         atom_label |-> _getnumber(phases[Len(phases)])]

\* the name calcRwp and the sweeps build for site i of phase p:
\* p + '_' + elem + str(self.atom_label[i]) + ...; IndexError past the end
SiteName(phases, atom_label, site) ==
    IF site[2] > Len(atom_label) THEN [err |-> "IndexError", name |-> << >>]
    ELSE [err |-> "", name |-> << site[1], phases[site[1]][site[2]], atom_label[site[2]] >>]

\* the loop over the sites: each name is built and looked up in self.params
\* (ValueError when there is no such parameter); the loop ends at the first
\* exception
RECURSIVE SiteLoop(_, _, _, _, _)
SiteLoop(phases, atom_label, names, sites, built) ==
    IF sites = << >> THEN [err |-> "", built |-> built]
    ELSE LET Looked(nm) ==
                 IF nm.err # "" THEN [err |-> nm.err, built |-> built]
                 ELSE IF ~InSeq(nm.name, names)
                 THEN [err |-> "ValueError", built |-> Append(built, nm.name)]
                 ELSE SiteLoop(phases, atom_label, names, Tail(sites),
                               Append(built, nm.name))
         IN  Looked(SiteName(phases, atom_label, Head(sites)))

AtomTypes == { << "Ce" >>, << "Ce", "O" >>, << "O", "O" >>, << "O", "Ce", "O" >> }

InitAtoms ==
    /\ NoModel /\ hk = [op |-> "none"] /\ NoSpectrum /\ NoParameters /\ NoProfile
    /\ \E N \in 1..MaxPhases : \E phases \in [1..N -> AtomTypes] :
          ph = [op |-> "new", phases |-> phases, names |-> << >>, atom_label |-> << >>,
                vary |-> {}, built |-> << >>, err |-> ""]

\* Rietveld.__init__: initialize_parameters
AT_initialize_parameters ==
    /\ ph.op = "new"
    /\ LET Made(r) == ph' = [ph EXCEPT !.op = "initialize_parameters", !.names = r.names,
                                       !.atom_label = r.atom_label]
       IN  Made(initialize_parameters_atoms(ph.phases))
    /\ UNCHANGED << ModelVars, hk, sp, pd, pv >>

\* Rietveld.calcRwp, PART 2: the atom parameters of every site are read; no
\* atom parameter is among the solver's parameters, so each is read from
\* self.params
AT_calcRwp ==
    /\ ph.op # "new"
    /\ LET Left(r) == ph' = [ph EXCEPT !.op = "calcRwp", !.built = r.built, !.err = r.err]
       IN  Left(SiteLoop(ph.phases, ph.atom_label, ph.names, Sites(ph.phases, 1), << >>))
    /\ UNCHANGED << ModelVars, hk, sp, pd, pv >>

\* params_xyz_vary_all_on / params_xyz_vary_all_off: the sweep over the atom
\* positions of all phases
AT_params_xyz_vary_all ==
    /\ ph.op # "new"
    /\ \E b \in BOOLEAN :
          LET Set(r, found) ==
                  ph' = [ph EXCEPT !.op = "params_xyz_vary_all", !.built = r.built,
                                   !.err = r.err,
                                   !.vary = IF b THEN ph.vary \cup found ELSE ph.vary \ found]
              Swept(r) == Set(r, { r.built[k] : k \in 1..Len(r.built) }
                                     \cap { ph.names[k] : k \in 1..Len(ph.names) })
          IN  Swept(SiteLoop(ph.phases, ph.atom_label, ph.names, Sites(ph.phases, 1), << >>))
    /\ UNCHANGED << ModelVars, hk, sp, pd, pv >>

NextAtoms ==
    \/ AT_initialize_parameters
    \/ AT_calcRwp
    \/ AT_params_xyz_vary_all

SpecAtoms == InitAtoms /\ [][NextAtoms]_vars

\* C29: in a Rietveld model of two or more phases whose atom lists differ,
\* every residual evaluation and every sweep over the atom parameters
\* addresses the parameters of each site by that phase's own occurrence
\* labels: the name built for site i of phase p is the one that
\* initialize_parameters created for it, and no lookup fails.
C29_OwnLabels ==
    (ph.op \in {"calcRwp", "params_xyz_vary_all"} /\ Len(ph.phases) >= 2)
        => (ph.err = "" /\ ph.built = ph.names)

\* a model of one phase addresses every site by its own label
C29_OnePhaseOwnLabels ==
    (ph.op \in {"calcRwp", "params_xyz_vary_all"} /\ Len(ph.phases) = 1)
        => (ph.err = "" /\ ph.built = ph.names)

(***************************************************************************)
(* Phases_Rietveld.  phase_dict is the sequence of its entries in          *)
(* insertion order, each [key, pf]: pf = d stands for the phase fraction   *)
(* 1/d that add_many assigned, pf = 0 for a material that has no attribute *)
(* pf.  One material stands for the materials of all wavelengths of a key. *)
(***************************************************************************)

MaxAdded == 4       \* phases counted by num_phases

PhaseKeys == {"A", "B", "C"}

\* Phases_Rietveld.__setitem__ with a newly built entry: an existing key keeps
\* its place in the dict and gets the new value
Phases___setitem__(phase_dict, key) ==
    IF \E n \in 1..Len(phase_dict) : phase_dict[n].key = key
    THEN [n \in 1..Len(phase_dict) |->
             IF phase_dict[n].key = key THEN [key |-> key, pf |-> 0] ELSE phase_dict[n]]
    ELSE Append(phase_dict, [key |-> key, pf |-> 0])

\* Phases_Rietveld.add: self[material_key] = {...}
Phases_add(c, material_key) ==
    [c EXCEPT !.phase_dict = Phases___setitem__(c.phase_dict, material_key)]

\* the first loop of add_many: self[k] = {...}; self.num_phases += 1
RECURSIVE Phases_add_many_loop(_, _)
Phases_add_many_loop(c, material_keys) ==
    IF material_keys = << >> THEN c
    ELSE Phases_add_many_loop(
             [c EXCEPT !.phase_dict = Phases___setitem__(c.phase_dict, Head(material_keys)),
                       !.num_phases = c.num_phases + 1],
             Tail(material_keys))

\* Phases_Rietveld.add_many: then pf = 1.0/self.num_phases for every phase
Phases_add_many(c, material_keys) ==
    LET Fractions(c1) ==
            [c1 EXCEPT !.phase_dict =
                [n \in 1..Len(c1.phase_dict) |->
                    [c1.phase_dict[n] EXCEPT !.pf = c1.num_phases]]]
    IN  Fractions(Phases_add_many_loop(c, material_keys))

\* Phases_Rietveld.load: add_many for every material file of the yaml file
RECURSIVE Phases_load(_, _)
Phases_load(c, dic) ==
    IF dic = << >> THEN c
    ELSE Phases_load(Phases_add_many(c, Head(dic)), Tail(dic))

\* lists of one or two material keys; yaml files of one or two material files
KeyLists == { << k >> : k \in PhaseKeys } \cup { << j, k >> : j, k \in PhaseKeys }

PhaseFiles == { << l >> : l \in { << "A" >>, << "A", "B" >> } }
                  \cup { << << "A" >>, << "B" >> >>, << << "A", "B" >>, << "C" >> >> }

RECURSIVE Total(_)
Total(dic) == IF dic = << >> THEN 0 ELSE Len(Head(dic)) + Total(Tail(dic))

\* Phases_Rietveld() with no material file
InitPhasesRietveld ==
    /\ NoModel /\ hk = [op |-> "none"] /\ NoSpectrum /\ NoParameters /\ NoProfile
    /\ ph = [op |-> "Phases_Rietveld", phase_dict |-> << >>, num_phases |-> 0]

PR_add ==
    /\ \E k \in PhaseKeys : ph' = [Phases_add(ph, k) EXCEPT !.op = "add"]
    /\ UNCHANGED << ModelVars, hk, sp, pd, pv >>

PR_add_many ==
    /\ \E keys \in KeyLists :
          /\ ph.num_phases + Len(keys) <= MaxAdded
          /\ ph' = [Phases_add_many(ph, keys) EXCEPT !.op = "add_many"]
    /\ UNCHANGED << ModelVars, hk, sp, pd, pv >>

PR_load ==
    /\ \E dic \in PhaseFiles :
          /\ ph.num_phases + Total(dic) <= MaxAdded
          /\ ph' = [Phases_load(ph, dic) EXCEPT !.op = "load"]
    /\ UNCHANGED << ModelVars, hk, sp, pd, pv >>

NextPhasesRietveld ==
    \/ PR_add
    \/ PR_add_many
    \/ PR_load

SpecPhasesRietveld == InitPhasesRietveld /\ [][NextPhasesRietveld]_vars

\* C30: after any sequence of add, add_many and load (re-adding a name and
\* loading several material files included) num_phases equals the number of
\* phases stored, every phase has a phase fraction, and the phase fractions
\* sum to 1.
C30_FractionsSumToOne ==
    ph.op \in {"add", "add_many", "load"}
        => /\ ph.num_phases = Len(ph.phase_dict)
           /\ \A n \in 1..Len(ph.phase_dict) : ph.phase_dict[n].pf = Len(ph.phase_dict)

\* add_many and load leave every phase with the fraction 1/num_phases
C30_ManySetsFractions ==
    ph.op \in {"add_many", "load"}
        => \A n \in 1..Len(ph.phase_dict) : ph.phase_dict[n].pf = ph.num_phases

(***************************************************************************)
(* The reflection lists of a model: tth, and sf (Rietveld variants) or     *)
(* Icalc (LeBail variants), for one cubic P phase and one wavelength.  An  *)
(* entry of tth is kept as [g, q]: the reflection it was computed for and  *)
(* its squared reciprocal length; an entry of sf as the reflection, the    *)
(* lattice and the atom position it was computed from; an entry of Icalc   *)
(* as the reflection at whose position the intensity was taken.            *)
(***************************************************************************)

\* the wavelength, in the length unit of the model
ReflWavelength == 10

\* sin(tth_min / 2)**2 and sin(tth_max / 2)**2 of the measured range, in
\* twentieths
SinSqMin == 5

SinSqMax == 18

\* np.abs(sth) <= 1.0 with sth = glen * wavelength / 2
SthAtMostOne(q) == ReflWavelength * ReflWavelength * q.num <= 4 * q.den

\* limit = (t >= tth_min) & (t <= tth_max) for the position of glen**2 = q:
\* sin(t / 2)**2 = wavelength**2 * q / 4
InLimit(q) ==
    /\ SinSqMin * q.den <= 5 * ReflWavelength * ReflWavelength * q.num
    /\ 5 * ReflWavelength * ReflWavelength * q.num <= SinSqMax * q.den

\* Material_Rietveld.getTTh: (tth, tth_mask)
getTTh_mask(hkls, dmt) ==
    LET all == [n \in 1..Len(hkls) |-> [g |-> hkls[n], q |-> CalcLength(hkls[n], dmt)]]
    IN  [tth |-> SelectSeq(all, LAMBDA e : SthAtMostOne(e.q)),
         tth_mask |-> [n \in 1..Len(hkls) |-> SthAtMostOne(all[n].q)]]

\* a[mask] for a boolean array mask of the length of a
Masked(a, mask) ==
    LET idx == SelectSeq([n \in 1..Len(a) |-> n], LAMBDA n : mask[n])
    IN  [k \in 1..Len(idx) |-> a[idx[k]]]

\* calctth: self.tth[p][k] = t[limit]
calctth_refl(m) ==
    LET Limited(t) == Masked(t, [k \in 1..Len(t) |-> InLimit(t[k].q)])
    IN  Limited(getTTh_mask(m.hkls, m.dmt).tth)

\* a variant of calcsf that does not apply the range limit
calcsf_nolimit(m) ==
    LET Factors(r) ==
            [k \in 1..Len(Masked(m.hkls, r.tth_mask)) |->
                [g |-> Masked(m.hkls, r.tth_mask)[k], lparms |-> m.lparms,
                 atom_pos |-> m.atom_pos]]
    IN  Factors(getTTh_mask(m.hkls, m.dmt))

\* calcsf: hkl = hkls[tmask][limit], one structure factor for each
calcsf_refl(m) ==
    LET Factors(hkl) ==
            [k \in 1..Len(hkl) |-> [g |-> hkl[k], lparms |-> m.lparms, atom_pos |-> m.atom_pos]]
        Limited(r) ==
            Factors(Masked(Masked(m.hkls, r.tth_mask),
                           [k \in 1..Len(r.tth) |-> InLimit(r.tth[k].q)]))
    IN  Limited(getTTh_mask(m.hkls, m.dmt))

\* initialize_Icalc: 1000.0 for every entry of tth
initialize_Icalc_refl(t) == [k \in 1..Len(t) |-> [g |-> t[k].g]]

\* CalcIobs; Icalc = Iobs: one intensity for each of the first
\* n = min(len(tth), len(Ic)) peaks, integrated at the position tth[i]
CalcIobs_refl(t, Ic) ==
    LET n == IF Len(t) < Len(Ic) THEN Len(t) ELSE Len(Ic)
    IN  [k \in 1..n |-> [g |-> t[k].g]]

ReflVariants == {"LeBail", "LeBail_Asym", "Rietveld", "Rietveld_Asym"}

\* trial values of the lattice parameter a; 0: a is not varying
ReflLp == {0, 8, 9, 10, 11, 12}

\* trial values of the atom coordinate; 0: it is not varying
ReflX == {0, 1, 2, 3}

\* the phase files: a cubic P or a cubic I phase with a = 10
ReflXtals ==
    { x \in Xtals : /\ x.sg.latticeType = "cubic" /\ x.sg.centering \in {"P", "I"}
                    /\ x.sg.symmorphic /\ x.dmin = 5 }

\* before __init__: the phase as its Material will be built
InitReflections ==
    /\ NoModel /\ hk = [op |-> "none"] /\ NoSpectrum /\ NoParameters /\ NoProfile
    /\ \E v \in ReflVariants, x \in ReflXtals :
          LET Phase(m) ==
                  ph = [op |-> "new", variant |-> v, lparms |-> m.lparms, dmt |-> m.dmt,
                        hkls |-> m.hkls, atom_pos |-> 1, tth |-> << >>, sf |-> << >>,
                        Icalc |-> << >>]
          IN  Phase(Material_LeBail(x, x.dmin))

\* __init__: initialize_phases calls calctth (and calcsf in the Rietveld
\* variants); the LeBail variants then call initialize_Icalc
RF___init__ ==
    /\ ph.op = "new"
    /\ LET Listed(t) ==
               ph' = [ph EXCEPT !.op = "init", !.tth = t,
                                !.sf = IF IsRietveld(ph.variant) THEN calcsf_refl(ph)
                                       ELSE << >>,
                                !.Icalc = IF IsRietveld(ph.variant) THEN << >>
                                          ELSE initialize_Icalc_refl(t)]
       IN  Listed(calctth_refl(ph))
    /\ UNCHANGED << ModelVars, hk, sp, pd, pv >>

\* calcRwp at a trial point with the lattice parameter a (if varying) and, in
\* the Rietveld variants, the atom coordinate (if varying)
RF_calcRwp ==
    /\ ph.op # "new"
    /\ \E a \in ReflLp, x \in ReflX :
          /\ ~IsRietveld(ph.variant) => x = 0
          /\ LET updated_lp == a # 0
                 lp == IF updated_lp THEN Required_lp("cubic", << a >>).lp ELSE ph.lparms
                 m == [lparms |-> lp, dmt |-> IF updated_lp THEN _calcrmt(lp) ELSE ph.dmt,
                       hkls |-> ph.hkls, atom_pos |-> IF x # 0 THEN x ELSE ph.atom_pos]
                 t == IF ph.variant = "LeBail" \/ updated_lp THEN calctth_refl(m) ELSE ph.tth
                 f == IF IsRietveld(ph.variant) /\ (updated_lp \/ x # 0)
                      THEN calcsf_refl(m) ELSE ph.sf
             IN  ph' = [ph EXCEPT !.op = "calcRwp", !.lparms = m.lparms, !.dmt = m.dmt,
                                  !.atom_pos = m.atom_pos, !.tth = t, !.sf = f]
    /\ UNCHANGED << ModelVars, hk, sp, pd, pv >>

\* the head of RefineCycle in the LeBail variants: CalcIobs(); Icalc = Iobs
RF_CalcIobs ==
    /\ ph.op # "new"
    /\ ~IsRietveld(ph.variant)
    /\ ph' = [ph EXCEPT !.op = "CalcIobs", !.Icalc = CalcIobs_refl(ph.tth, ph.Icalc)]
    /\ UNCHANGED << ModelVars, hk, sp, pd, pv >>

NextReflections ==
    \/ RF___init__
    \/ RF_calcRwp
    \/ RF_CalcIobs

SpecReflections == InitReflections /\ [][NextReflections]_vars

\* two lists have the same length and their i-th entries the same reflection
Aligned(t, I) == Len(t) = Len(I) /\ \A k \in 1..Len(t) : t[k].g = I[k].g

\* C22: in the Rietveld variants, after construction and after every
\* residual evaluation, tth and sf have the same length and their i-th
\* entries belong to the same reflection; a reflection with
\* wavelength * |g| / 2 > 1 or a position outside [tth_min, tth_max] is in
\* neither list.
C22_TthAndSfAligned ==
    (IsRietveld(ph.variant) /\ ph.op \in {"init", "calcRwp"})
        => /\ Aligned(ph.tth, ph.sf)
           /\ \A k \in 1..Len(ph.tth) :
                 /\ ph.tth[k].q = CalcLength(ph.sf[k].g, ph.dmt)
                 /\ SthAtMostOne(ph.tth[k].q) /\ InLimit(ph.tth[k].q)
           /\ \A n \in 1..Len(ph.hkls) :
                 (\E k \in 1..Len(ph.sf) : ph.sf[k].g = ph.hkls[n])
                     <=> LET q == CalcLength(ph.hkls[n], ph.dmt)
                         IN  SthAtMostOne(q) /\ InLimit(q)

\* a Rietveld model after a residual evaluation that shrank the cell: one
\* reflection has sth > 1, another lies beyond tth_max, the others are listed
C22_Witness ==
    /\ ph.variant = "Rietveld" /\ ph.op = "calcRwp" /\ ph.lparms[1] = 9
    /\ \E n \in 1..Len(ph.hkls) : ~SthAtMostOne(CalcLength(ph.hkls[n], ph.dmt))
    /\ \E n \in 1..Len(ph.hkls) :
          LET q == CalcLength(ph.hkls[n], ph.dmt) IN SthAtMostOne(q) /\ ~InLimit(q)
    /\ Len(ph.sf) = 2 /\ Len(ph.tth) = 2

\* C27: in the LeBail variants Icalc and tth have the same length and their
\* i-th entries belong to the same reflection whenever computespectrum or
\* CalcIobs uses them, also after a change of the lattice moved a reflection
\* into or out of [tth_min, tth_max].
C27_IcalcAndTthAligned ==
    (~IsRietveld(ph.variant) /\ ph.op \in {"init", "calcRwp", "CalcIobs"})
        => Aligned(ph.tth, ph.Icalc)

\* the lists stay aligned over a residual evaluation that leaves the set of
\* listed reflections as it was
C27_AlignedWhileListUnchanged ==
    [][ (/\ ~IsRietveld(ph.variant) /\ Aligned(ph.tth, ph.Icalc)
         /\ Len(ph'.tth) = Len(ph.tth)
         /\ \A k \in 1..Len(ph.tth) : ph'.tth[k].g = ph.tth[k].g)
            => Aligned(ph'.tth, ph'.Icalc) ]_vars

=============================================================================
